---- MODULE Spec2Model ----
(***************************************************************************)
(* A model of the put.io folder-upload client (putio-cli/putio/core.py).  *)
(*                                                                         *)
(* The remote storage service is a set of entries; every remote call of   *)
(* the client (create folder, list children, upload) is one atomic step.  *)
(* Names are strings, modelled as non-empty sequences of character codes; *)
(* a target is a string in which the character Slash separates the        *)
(* components.                                                            *)
(***************************************************************************)
EXTENDS Naturals, Integers, Sequences, FiniteSets, TLC

\* ------------------------------------------------------------------ bounds
MaxDepth == 2       \* depth of the local tree below the source directory
MaxNodes == 3       \* directories and files below the source directory
MaxComps == 2       \* components of a target path
MaxPre == 1         \* entries on the remote before the first invocation
MaxInput == 3       \* local nodes + target components + initial remote entries
MaxInputConc == 2   \* the same, when two processes run
MaxOps == 2         \* invocations in one behaviour
MaxFaults == 1      \* remote calls answered with an unrelated API error
MaxWalkDepth == 3   \* depth of the local tree when only the walk is followed
MaxWalkNodes == 5   \* its directories and files
MaxTimeout == 6     \* the OAuth timeout, in seconds
MaxRetry == 4       \* the OAuth retry period, in seconds
MaxPolls == 61      \* polls of the relay in one OAuth flow
MaxRequests == 3    \* /get-access-token requests the relay serves
MaxStores == 2      \* /oauth-callback requests the relay serves

Slash == 0          \* the character "/"
RootId == 0         \* id of the remote root folder

\* The names used in the local tree, in targets and on the remote:
\* "a" and "ab", with a = 1 and b = 2.
Names == {<<1>>, <<1, 2>>}
Sizes == {0, 2}
NoTarget == <<>>    \* target None (or the empty string)

\* ------------------------------------------------------------- sequences
Last(s) == s[Len(s)]
Front(s) == SubSeq(s, 1, Len(s) - 1)
Range(s) == {s[i] : i \in 1..Len(s)}

\* All orders in which the members of a finite set can be enumerated.
Orders(S) ==
  {o \in [1..Cardinality(S) -> S] : \A i, j \in 1..Cardinality(S) : i # j => o[i] # o[j]}

\* ------------------------------------------------------------------ strings
\* Python's order on str: lexicographic by character code, a proper prefix first.
RECURSIVE LexLess(_, _)
LexLess(a, b) ==
  IF a = <<>> THEN b # <<>>
  ELSE IF b = <<>> THEN FALSE
  ELSE IF Head(a) = Head(b) THEN LexLess(Tail(a), Tail(b))
  ELSE Head(a) < Head(b)

RECURSIVE Insert(_, _)
Insert(x, s) ==
  IF s = <<>> THEN <<x>>
  ELSE IF LexLess(x, Head(s)) THEN <<x>> \o s
  ELSE <<Head(s)>> \o Insert(x, Tail(s))

RECURSIVE SortedInsert(_, _)
SortedInsert(s, acc) ==
  IF s = <<>> THEN acc ELSE SortedInsert(Tail(s), Insert(Head(s), acc))

\* list.sort() (core.py:81, core.py:89) on a list of distinct names.
NoSort(s) == s
SortNames(s) == SortedInsert(s, <<>>)

\* str.split("/") (core.py:133): the components between the separators.
RECURSIVE SplitAcc(_, _, _)
SplitAcc(s, cur, acc) ==
  IF s = <<>> THEN Append(acc, cur)
  ELSE IF Head(s) = Slash THEN SplitAcc(Tail(s), <<>>, Append(acc, cur))
  ELSE SplitAcc(Tail(s), Append(cur, Head(s)), acc)

Split(s) == SplitAcc(s, <<>>, <<>>)

\* "/".join(components): how a caller writes a target path.
RECURSIVE Join(_)
Join(cs) ==
  IF Len(cs) = 1 THEN cs[1] ELSE cs[1] \o <<Slash>> \o Join(Tail(cs))

Targets ==
  {NoTarget} \cup {Join(cs) : cs \in UNION {[1..n -> Names] : n \in 1..MaxComps}}

\* str.removeprefix(prefix).
RemovePrefix(s, prefix) ==
  IF Len(prefix) <= Len(s) /\ SubSeq(s, 1, Len(prefix)) = prefix
    THEN SubSeq(s, Len(prefix) + 1, Len(s))
  ELSE s

\* str.replace(old, new) for a non-empty old: every occurrence, left to right.
RECURSIVE StrReplace(_, _, _)
StrReplace(s, old, new) ==
  IF Len(s) < Len(old) THEN s
  ELSE IF SubSeq(s, 1, Len(old)) = old
    THEN new \o StrReplace(SubSeq(s, Len(old) + 1, Len(s)), old, new)
  ELSE <<Head(s)>> \o StrReplace(Tail(s), old, new)

\* rel_path (core.py:231-236): the prefix removed, the text up to the first
\* "/" taken as base, and base replaced by source_name.
rel_path(path, source_name, source_prefix) ==
  LET relative_path == RemovePrefix(path, source_prefix)
      base == Split(relative_path)[1]
  IN StrReplace(relative_path, base, source_name)

\* ---------------------------------------------------------------- sizes
Kilo == 1000
Mega == 1000000
Giga == 1000000000
HundredMega == 100000000

\* A size in bytes is the pair g, r that stands for g * 10^9 + r, r < 10^9.
Bytes(n) == [g |-> n \div Giga, r |-> n % Giga]

\* human_size (core.py:239-247). The text is the number before the point,
\* the digit after it (-1 when there is none) and the unit. For GB the
\* quotient size / 10^9 is rounded to one decimal place.
human_size_inclusive(size) ==
  IF size.g >= 1
    THEN LET t == 10 * size.g + (size.r + 5 * (HundredMega \div 10)) \div HundredMega
         IN [int |-> t \div 10, dec |-> t % 10, unit |-> "GB"]
  ELSE IF size.r >= Mega THEN [int |-> size.r \div Mega, dec |-> -1, unit |-> "MB"]
  ELSE IF size.r >= Kilo THEN [int |-> size.r \div Kilo, dec |-> -1, unit |-> "KB"]
  ELSE [int |-> size.r, dec |-> -1, unit |-> "B"]

human_size(size) ==
  IF size.g > 1 \/ (size.g = 1 /\ size.r > 0)
    THEN LET t == 10 * size.g + (size.r + 5 * (HundredMega \div 10)) \div HundredMega
         IN [int |-> t \div 10, dec |-> t % 10, unit |-> "GB"]
  ELSE IF size.g = 1 \/ size.r > Mega
    THEN [int |-> (IF size.g = 1 THEN Giga ELSE size.r) \div Mega, dec |-> -1, unit |-> "MB"]
  ELSE IF size.r > Kilo THEN [int |-> size.r \div Kilo, dec |-> -1, unit |-> "KB"]
  ELSE [int |-> size.r, dec |-> -1, unit |-> "B"]

\* --------------------------------------------------------------- local tree
\* A local path is the sequence of names below the source directory; <<>> is
\* the source directory itself.
AllPaths == UNION {[1..n -> Names] : n \in 1..MaxDepth}

TreeOK(d, f) ==
  /\ d \cap f = {}
  /\ \A q \in d \cup f : Len(q) > 1 => Front(q) \in d

NodeSets == {X \in SUBSET AllPaths : Cardinality(X) <= MaxNodes}

Shapes ==
  UNION {{<<d, S \ d>> : d \in {Y \in SUBSET S : TreeOK(Y, S \ Y)}} : S \in NodeSets}

\* The local trees: directories, files and the byte size of every file.
Trees ==
  UNION {{[dirs |-> sh[1], files |-> sh[2], size |-> sz] : sz \in [sh[2] -> Sizes]} :
           sh \in Shapes}

Children(S, d) == {q \in S : Len(q) = Len(d) + 1 /\ Front(q) = d}
SubdirNames(t, d) == {Last(q) : q \in Children(t.dirs, d)}
FileNames(t, d) == {Last(q) : q \in Children(t.files, d)}

RECURSIVE SumSizes(_, _)
SumSizes(t, F) ==
  IF F = {} THEN 0
  ELSE LET f == CHOOSE x \in F : TRUE IN t.size[f] + SumSizes(t, F \ {f})

\* ------------------------------------------------------------ remote service
\* An entry of the remote service (_types.File): id, name, file_type, size,
\* and the folder it lies in.
Entry(id, name, kind, parent, size) ==
  [id |-> id, name |-> name, kind |-> kind, parent |-> parent, size |-> size]

\* File.list(parent_id): the entries of a folder.
RemoteList(r, pid) == {e \in r : e.parent = pid}

\* File.create_folder(name, parent_id): a name is unique among siblings; the
\* service answers NAME_ALREADY_EXIST when the name is taken by a file or a folder.
RemoteCreateFolderUnchecked(r, nid, name, pid, fault) ==
  IF fault THEN [err |-> "SOME_OTHER_ERROR", id |-> -1, remote |-> r]
  ELSE [err |-> "none", id |-> nid,
        remote |-> r \cup {Entry(nid, name, "FOLDER", pid, 0)}]

RemoteCreateFolder(r, nid, name, pid, fault) ==
  IF fault THEN [err |-> "SOME_OTHER_ERROR", id |-> -1, remote |-> r]
  ELSE IF \E e \in RemoteList(r, pid) : e.name = name
    THEN [err |-> "NAME_ALREADY_EXIST", id |-> -1, remote |-> r]
  ELSE [err |-> "none", id |-> nid,
        remote |-> r \cup {Entry(nid, name, "FOLDER", pid, 0)}]

\* File.upload(path, parent_id): stores the file under its own name; a name
\* is unique among siblings.
RemoteUpload(r, nid, name, pid, size, fault) ==
  IF fault \/ \E e \in RemoteList(r, pid) : e.name = name
    THEN [err |-> "SOME_OTHER_ERROR", id |-> -1, size |-> 0, remote |-> r]
  ELSE [err |-> "none", id |-> nid, size |-> size,
        remote |-> r \cup {Entry(nid, name, "FILE", pid, size)}]

\* The initial contents of the remote root folder: at most MaxPre entries,
\* files or folders, with distinct names and ids.
NameIndex(n) == 1 + Cardinality({m \in Names : LexLess(m, n)})

PreEntries == {Entry(NameIndex(n), n, k, RootId, 0) : n \in Names, k \in {"FOLDER", "FILE"}}

PreConfigs ==
  {S \in SUBSET PreEntries :
     /\ Cardinality(S) <= MaxPre
     /\ \A e, f \in S : e.name = f.name => e = f}

\* ------------------------------------------------------------------ gateway
\* create_folder (core.py:147-172): one remote call, the remote error mapped
\* to NameClash or UnknownAPI.
CreateFolderAllUnknown(r, nid, name, pid, fault) ==
  LET a == RemoteCreateFolder(r, nid, name, pid, fault) IN
  [res |-> IF a.err = "none" THEN "ok" ELSE "UnknownAPI",
   id |-> a.id, remote |-> a.remote, err |-> a.err]

create_folder_replacing(r, nid, name, pid, fault) ==
  LET held == {e \in RemoteList(r, pid) : e.name = name /\ e.kind = "FOLDER"}
      a == RemoteCreateFolder(r \ held, nid, name, pid, fault)
  IN [res |-> IF a.err = "none" THEN "ok"
              ELSE IF a.err # "NAME_ALREADY_EXIST" THEN "UnknownAPI"
              ELSE "NameClash",
      id |-> a.id, remote |-> IF a.err = "none" THEN a.remote ELSE r, err |-> a.err]

create_folder(r, nid, name, pid, fault) ==
  LET a == RemoteCreateFolder(r, nid, name, pid, fault) IN
  [res |-> IF a.err = "none" THEN "ok"
           ELSE IF a.err # "NAME_ALREADY_EXIST" THEN "UnknownAPI"
           ELSE "NameClash",
   id |-> a.id, remote |-> a.remote, err |-> a.err]

\* get_folder (core.py:175-204): the first listed entry with the name and the
\* type FOLDER, or None (-1).
get_folder_at_root(r, name, pid, fault) ==
  IF fault THEN [res |-> "UnknownAPI", id |-> -1, err |-> "SOME_OTHER_ERROR"]
  ELSE LET m == {e \in RemoteList(r, RootId) : e.name = name /\ e.kind = "FOLDER"} IN
       [res |-> "ok", id |-> IF m = {} THEN -1 ELSE (CHOOSE e \in m : TRUE).id,
        err |-> "none"]

get_folder_of_type_file(r, name, pid, fault) ==
  IF fault THEN [res |-> "UnknownAPI", id |-> -1, err |-> "SOME_OTHER_ERROR"]
  ELSE LET m == {e \in RemoteList(r, pid) : e.name = name /\ e.kind = "FILE"} IN
       [res |-> "ok", id |-> IF m = {} THEN -1 ELSE (CHOOSE e \in m : TRUE).id,
        err |-> "none"]

get_folder(r, name, pid, fault) ==
  IF fault THEN [res |-> "UnknownAPI", id |-> -1, err |-> "SOME_OTHER_ERROR"]
  ELSE LET m == {e \in RemoteList(r, pid) : e.name = name /\ e.kind = "FOLDER"} IN
       [res |-> "ok", id |-> IF m = {} THEN -1 ELSE (CHOOSE e \in m : TRUE).id,
        err |-> "none"]

\* upload_file (core.py:207-228): one remote call, every remote error mapped
\* to UnknownAPI.
upload_file_unmapped(r, nid, name, pid, size, fault) ==
  LET a == RemoteUpload(r, nid, name, pid, size, fault) IN
  [res |-> IF a.err = "none" THEN "ok" ELSE a.err,
   id |-> a.id, size |-> a.size, remote |-> a.remote, err |-> a.err]

upload_file(r, nid, name, pid, size, fault) ==
  LET a == RemoteUpload(r, nid, name, pid, size, fault) IN
  [res |-> IF a.err = "none" THEN "ok" ELSE "UnknownAPI",
   id |-> a.id, size |-> a.size, remote |-> a.remote, err |-> a.err]

\* -------------------------------------------------------------------- state
Procs == {1, 2}

VARIABLES
  tree,     \* the local source directory
  plan,     \* target, name and verbosity of the invocations of this behaviour
  active,   \* the client processes that run
  remote,   \* the entries of the remote service
  nextId,   \* the id the remote service assigns next
  st,       \* per process: the invocation in progress
  ops,      \* the invocations so far, with their outcome
  calls,    \* the remote calls so far, in order
  faults,   \* remote calls answered with an unrelated API error so far
  hs,       \* a call of human_size: its argument and its result
  oauth,    \* the OAuth polling of the client (auth.py)
  relay,    \* the token relay (putio-auth/app.py) and the requests to it
  cli       \* a run of a command of the command line (cli.py)

corevars == <<tree, plan, active, remote, nextId, st, ops, calls, faults>>
auxvars == <<hs, oauth, relay, cli>>
vars == <<corevars, auxvars>>

\* A part of the program that does not take part in a specification.
Off == [pc |-> "off"]

Rest == {"idle", "done", "failed"}

IdleProc ==
  [pc |-> "idle", op |-> 0, kind |-> "none", target |-> NoTarget, comps |-> <<>>, parent_id |-> 0,
   target_id |-> -1, source_id |-> -1, dir_ids |-> <<>>, stack |-> <<>>,
   path |-> <<>>, todo_folders |-> <<>>, todo_files |-> <<>>,
   total_count |-> 0, total_size |-> 0, uploaded_count |-> 0, uploaded_size |-> 0,
   out |-> <<>>, err |-> "none", ret |-> -1]

\* The base name of the source directory ("a": a name of the tree equals it,
\* the other one contains it), and the directory it lies in.
SourceNames == {<<1>>}
ParentDir == <<3>>

Plans == [source : SourceNames, target : Targets, name : Names, verbose : BOOLEAN]

InputSize(t, pl, pre) ==
  Cardinality(t.dirs \cup t.files)
    + (IF pl.target = NoTarget THEN 0 ELSE Len(Split(pl.target)))
    + Cardinality(pre)

InitWith(A, maxInput) ==
  /\ tree \in Trees
  /\ plan \in Plans
  /\ remote \in PreConfigs
  /\ InputSize(tree, plan, remote) <= maxInput
  /\ active = A
  /\ nextId = Cardinality(Names) + 1
  /\ st = [p \in Procs |-> IdleProc]
  /\ ops = <<>>
  /\ calls = <<>>
  /\ faults = 0
  /\ hs = Off /\ oauth = Off /\ relay = Off /\ cli = Off

Init == InitWith({1}, MaxInput)

\* ------------------------------------------------------------------ helpers
FaultChoice == IF faults < MaxFaults THEN BOOLEAN ELSE {FALSE}

Call(s, phase, call, name, parent, path, a) ==
  [op |-> s.op, phase |-> phase, call |-> call, name |-> name, parent |-> parent,
   path |-> path, res |-> a.res, err |-> a.err, id |-> a.id]

\* vecho (core.py:23-31) and echo: the output of the invocation.
vecho_always(out, e) == Append(out, e)
vecho(out, e) == IF plan.verbose THEN Append(out, e) ELSE out
echo(out, e) == Append(out, e)

FailSwallowed(s, e) == [s EXCEPT !.pc = "done", !.ret = 0]
FailAfterEvent(s, e) ==
  [s EXCEPT !.pc = "failed", !.err = e,
            !.out = Append(@, [ev |-> "folder_created", path |-> s.path, text |-> <<>>])]
Fail(s, e) == [s EXCEPT !.pc = "failed", !.err = e]
Return(s, v) == [s EXCEPT !.pc = "done", !.ret = v]

\* The new state of the process, the remote service and the histories after
\* one step of process p.
Commit(p, s2, r2, newcalls, fault) ==
  /\ st' = [st EXCEPT ![p] = s2]
  /\ remote' = r2
  /\ nextId' = IF r2 # remote THEN nextId + 1 ELSE nextId
  /\ calls' = calls \o newcalls
  /\ faults' = IF fault THEN faults + 1 ELSE faults
  /\ ops' = [ops EXCEPT ![s2.op].res =
                          IF s2.pc = "done" THEN "ok"
                          ELSE IF s2.pc = "failed" THEN s2.err ELSE @,
                        ![s2.op].ret = s2.ret]
  /\ UNCHANGED <<tree, plan, active, auxvars>>

\* ------------------------------------------------------------------ the walk
\* os.walk's descent into the subdirectories of the directory it yielded.
ChildPathsNone(path, folders) == <<>>
ChildPaths(path, folders) == [i \in 1..Len(folders) |-> Append(path, folders[i])]

\* os.walk (core.py:80), top-down: the next directory it yields for which the
\* loop body has a folder to create or a file to upload.
RECURSIVE Advance(_, _)
Advance(t, stack) ==
  IF stack = <<>> THEN [found |-> FALSE, path |-> <<>>, stack |-> <<>>]
  ELSE IF SubdirNames(t, Head(stack)) # {} \/ FileNames(t, Head(stack)) # {}
    THEN [found |-> TRUE, path |-> Head(stack), stack |-> Tail(stack)]
  ELSE Advance(t, Tail(stack))

\* str(source), source_prefix (core.py:63) and os.path.join(path, name)
\* (core.py:83, core.py:91) for the local path below the source directory.
SourceStr == ParentDir \o <<Slash>> \o plan.source
SourcePrefix == ParentDir \o <<Slash>>
PathStr(path) == Join(<<SourceStr>> \o path)

\* core.py:103-111: the summary line. An absent part is the empty string.
SummaryLineAlwaysAs(s) ==
  [ev |-> "summary", source |-> plan.source,
   into |-> IF s.target # NoTarget THEN s.target ELSE <<>>,
   as |-> plan.name,
   files |-> s.total_count # 0,
   count |-> s.total_count, size |-> human_size(Bytes(s.total_size))]

SummaryLine(s) ==
  [ev |-> "summary", source |-> plan.source,
   into |-> IF s.target # NoTarget THEN s.target ELSE <<>>,
   as |-> IF plan.name # plan.source THEN plan.name ELSE <<>>,
   files |-> s.total_count # 0,
   count |-> s.total_count, size |-> human_size(Bytes(s.total_size))]

Summary(s) ==
  [s EXCEPT !.pc = "done", !.ret = 0, !.out = echo(@, SummaryLine(s))]

\* core.py:80-101: what follows a completed remote call of the walk, up to the
\* next remote call. The directory is enumerated in any order and then sorted;
\* os.walk descends into the subdirectories in the order of the sorted list.
WalkNextBreadthFirst(s) ==
  IF s.todo_folders # <<>> \/ s.todo_files # <<>> THEN {s}
  ELSE LET adv == Advance(tree, s.stack) IN
       IF ~adv.found THEN {Summary(s)}
       ELSE {[s EXCEPT !.path = adv.path,
                       !.todo_folders = SortNames(fo),
                       !.todo_files = SortNames(fl),
                       !.stack = adv.stack \o ChildPaths(adv.path, SortNames(fo))] :
               fo \in Orders(SubdirNames(tree, adv.path)),
               fl \in Orders(FileNames(tree, adv.path))}

WalkNext(s) ==
  IF s.todo_folders # <<>> \/ s.todo_files # <<>> THEN {s}
  ELSE LET adv == Advance(tree, s.stack) IN
       IF ~adv.found THEN {Summary(s)}
       ELSE {[s EXCEPT !.path = adv.path,
                       !.todo_folders = SortNames(fo),
                       !.todo_files = SortNames(fl),
                       !.stack = ChildPaths(adv.path, SortNames(fo)) \o adv.stack] :
               fo \in Orders(SubdirNames(tree, adv.path)),
               fl \in Orders(FileNames(tree, adv.path))}

\* ------------------------------------------------------------- invocations
OpRecord(p, kind, parent, force, s2) ==
  [proc |-> p, kind |-> kind, target |-> s2.target, name |-> plan.name,
   parent |-> parent, force |-> force, pre |-> remote,
   res |-> IF s2.pc = "done" THEN "ok" ELSE IF s2.pc = "failed" THEN s2.err ELSE "running",
   ret |-> s2.ret]

CanBegin(p) ==
  /\ p \in active
  /\ st[p].pc \in Rest
  /\ Len(ops) < MaxOps

NewProc(kind, target) ==
  [IdleProc EXCEPT !.op = Len(ops) + 1, !.kind = kind, !.target = target]

\* The targets of the invocations: the planned target, or none.
TargetChoice == {NoTarget, plan.target}

\* get_target_id has returned id (core.py:144): the caller goes on.
Resolved(s, id) ==
  IF s.kind = "get_target_id" THEN Return(s, id)
  ELSE [s EXCEPT !.pc = "root", !.target_id = id]

\* get_target_id up to its first remote call (core.py:129-133).
EnterResolveAlways(s) ==
  [s EXCEPT !.pc = "resolve", !.comps = Split(s.target), !.parent_id = RootId]

EnterResolveNever(s) == Resolved(s, RootId)

EnterResolve(s) ==
  IF s.target = NoTarget THEN Resolved(s, RootId)
  ELSE [s EXCEPT !.pc = "resolve", !.comps = Split(s.target), !.parent_id = RootId]

\* The call upload_folder(source, target, name, access_token, verbosity)
\* (core.py:34-60). The function has no force parameter: a call that passes
\* force (here force = TRUE) is rejected with TypeError before the body runs;
\* force = FALSE stands for the call the signature admits.
UploadFolderCall(p, target, force) ==
  /\ CanBegin(p)
  /\ LET s0 == NewProc("upload_folder", target)
         s2 == IF force THEN Fail(s0, "TypeError") ELSE EnterResolve(s0)
     IN /\ st' = [st EXCEPT ![p] = s2]
        /\ ops' = Append(ops, OpRecord(p, "upload_folder", -1, force, s2))
  /\ UNCHANGED <<tree, plan, active, remote, nextId, calls, faults, auxvars>>

\* The call get_target_id(target) (core.py:114-133).
GetTargetIdCall(p, target) ==
  /\ CanBegin(p)
  /\ LET s2 == EnterResolve(NewProc("get_target_id", target))
     IN /\ st' = [st EXCEPT ![p] = s2]
        /\ ops' = Append(ops, OpRecord(p, "get_target_id", -1, FALSE, s2))
  /\ UNCHANGED <<tree, plan, active, remote, nextId, calls, faults, auxvars>>

\* The call create_folder(name, parent_id=parent) (core.py:147-172), and with
\* force = TRUE the call create_folder(name, parent_id=parent, force=True),
\* which the signature rejects with TypeError.
CreateFolderCall(p, parent, force, fault) ==
  /\ CanBegin(p)
  /\ LET s0 == NewProc("create_folder", NoTarget)
         a == create_folder(remote, nextId, plan.name, parent, fault)
         s2 == IF force THEN Fail(s0, "TypeError")
               ELSE IF a.res = "ok" THEN Return(s0, a.id) ELSE Fail(s0, a.res)
     IN /\ st' = [st EXCEPT ![p] = s2]
        /\ ops' = Append(ops, OpRecord(p, "create_folder", parent, force, s2))
        /\ remote' = IF force THEN remote ELSE a.remote
        /\ nextId' = IF ~force /\ a.res = "ok" THEN nextId + 1 ELSE nextId
        /\ calls' = IF force THEN calls
                    ELSE Append(calls, Call(s0, "direct", "create_folder", plan.name,
                                            parent, <<>>, a))
        /\ faults' = IF ~force /\ fault THEN faults + 1 ELSE faults
  /\ UNCHANGED <<tree, plan, active, auxvars>>

\* ------------------------------------------------------- target resolution
\* core.py:142 and the next turn of the loop at core.py:133.
ResolveStepFlat(s, id) ==
  IF Tail(s.comps) = <<>>
    THEN Resolved([s EXCEPT !.comps = <<>>, !.parent_id = id], id)
  ELSE [s EXCEPT !.pc = "resolve", !.comps = Tail(@), !.parent_id = RootId]

ResolveStep(s, id) ==
  IF Tail(s.comps) = <<>>
    THEN Resolved([s EXCEPT !.comps = <<>>, !.parent_id = id], id)
  ELSE [s EXCEPT !.pc = "resolve", !.comps = Tail(@), !.parent_id = id]

ResolveCreateFatalClash(p, fault) ==
  /\ p \in active
  /\ st[p].pc = "resolve"
  /\ LET s == st[p]
         c == Head(s.comps)
         a == create_folder(remote, nextId, c, s.parent_id, fault)
         s2 == IF a.res = "ok" THEN ResolveStep(s, a.id) ELSE Fail(s, a.res)
     IN Commit(p, s2, a.remote,
               <<Call(s, "resolve", "create_folder", c, s.parent_id, <<>>, a)>>, fault)

\* core.py:134-136: the creation of the next component.
ResolveCreate(p, fault) ==
  /\ p \in active
  /\ st[p].pc = "resolve"
  /\ LET s == st[p]
         c == Head(s.comps)
         a == create_folder(remote, nextId, c, s.parent_id, fault)
         s2 == IF a.res = "ok" THEN ResolveStep(s, a.id)
               ELSE IF a.res = "NameClash" THEN [s EXCEPT !.pc = "lookup"]
               ELSE Fail(s, a.res)
     IN Commit(p, s2, a.remote,
               <<Call(s, "resolve", "create_folder", c, s.parent_id, <<>>, a)>>, fault)

\* core.py:137-139: after NameClash, the lookup of the existing folder.
ResolveLookup(p, fault) ==
  /\ p \in active
  /\ st[p].pc = "lookup"
  /\ LET s == st[p]
         c == Head(s.comps)
         g == get_folder(remote, c, s.parent_id, fault)
         s2 == IF g.res # "ok" THEN Fail(s, g.res)
               ELSE IF g.id = -1 THEN Fail(s, "NameClashWithFile")
               ELSE ResolveStep(s, g.id)
     IN Commit(p, s2, remote,
               <<Call(s, "resolve", "list", c, s.parent_id, <<>>, g)>>, fault)

\* ------------------------------------------------------------ upload_folder
\* dir_ids[str(path)] (core.py:84, core.py:92): the mirror of the visited directory.
ParentIdRoot(s) == s.source_id
ParentId(s) == s.dir_ids[s.path]

\* core.py:71-72: the pre-scan of the files of the source directory, at any
\* depth (rglob): their number and the sum of their sizes.
PreScanTopLevel(t) ==
  [count |-> Cardinality(Children(t.files, <<>>)),
   size |-> SumSizes(t, Children(t.files, <<>>))]
PreScan(t) == [count |-> Cardinality(t.files), size |-> SumSizes(t, t.files)]

\* core.py:94-95: the counters after a completed upload of a file of that size.
UploadedNoCount(s, size) == [s EXCEPT !.uploaded_size = @ + size]
Uploaded(s, size) ==
  [s EXCEPT !.uploaded_count = @ + 1, !.uploaded_size = @ + size]

\* core.py:85: dir_ids[str(folder_path)] = folder_id.
SetDirIdOnly(dir_ids, folder_path, folder_id) == (folder_path :> folder_id)
SetDirId(dir_ids, folder_path, folder_id) == (folder_path :> folder_id) @@ dir_ids

\* core.py:98-101: the progress line after an upload.
ProgressEvent(s, file_path) ==
  [ev |-> "progress", path |-> file_path,
   count |-> s.uploaded_count, total |-> s.total_count,
   size |-> s.uploaded_size, total_size |-> s.total_size,
   text |-> <<human_size(Bytes(s.uploaded_size)), human_size(Bytes(s.total_size))>>]

\* core.py:65-69: the line for the mirror of the source directory.
RootEvent(s) ==
  [ev |-> "folder_created", path |-> <<>>, text |-> plan.name, at |-> s.target]

\* core.py:87, core.py:97: the line for a subdirectory or a file.
EntryEvent(ev, path) ==
  [ev |-> ev, path |-> path, text |-> rel_path(PathStr(path), plan.name, SourcePrefix)]

\* core.py:75-76: the banner.
BannerAlways(out, total_count, total_size) ==
  echo(out, [ev |-> "banner", path |-> <<>>, count |-> total_count,
             size |-> human_size(Bytes(total_size))])

Banner(out, total_count, total_size) ==
  IF total_count # 0
    THEN echo(out, [ev |-> "banner", path |-> <<>>, count |-> total_count,
                    size |-> human_size(Bytes(total_size))])
  ELSE out

\* core.py:62-79: the creation of the mirror of the source directory, the
\* pre-scan and the banner.
CreateRoot(p, fault) ==
  /\ p \in active
  /\ st[p].pc = "root"
  /\ LET s == st[p]
         a == create_folder(remote, nextId, plan.name, s.target_id, fault)
         n == PreScan(tree).count
         o1 == vecho(s.out, RootEvent(s))
         o2 == Banner(o1, n, PreScan(tree).size)
         s1 == [s EXCEPT !.pc = "walk", !.source_id = a.id, !.out = o2,
                         !.total_count = n, !.total_size = PreScan(tree).size,
                         !.dir_ids = (<<>> :> a.id),
                         !.uploaded_count = 0, !.uploaded_size = 0,
                         !.stack = << <<>> >>]
         c == <<Call(s, "root", "create_folder", plan.name, s.target_id, <<>>, a)>>
     IN IF a.res = "ok"
          THEN \E s2 \in WalkNext(s1) : Commit(p, s2, a.remote, c, fault)
        ELSE Commit(p, Fail(s, a.res), a.remote, c, fault)

\* core.py:82-87: the mirror of the next subdirectory of the visited directory.
WalkCreate(p, fault) ==
  /\ p \in active
  /\ st[p].pc = "walk"
  /\ st[p].todo_folders # <<>>
  /\ LET s == st[p]
         folder_name == Head(s.todo_folders)
         folder_path == Append(s.path, folder_name)
         a == create_folder(remote, nextId, folder_name, ParentId(s), fault)
         s1 == [s EXCEPT !.dir_ids = SetDirId(@, folder_path, a.id),
                         !.todo_folders = Tail(@),
                         !.out = vecho(@, EntryEvent("folder_created", folder_path))]
         c == <<Call(s, "walk", "create_folder", folder_name, ParentId(s),
                     folder_path, a)>>
     IN IF a.res = "ok"
          THEN \E s2 \in WalkNext(s1) : Commit(p, s2, a.remote, c, fault)
        ELSE Commit(p, Fail(s, a.res), a.remote, c, fault)

\* core.py:89-101: the upload of the next file of the visited directory.
WalkUpload(p, fault) ==
  /\ p \in active
  /\ st[p].pc = "walk"
  /\ st[p].todo_folders = <<>>
  /\ st[p].todo_files # <<>>
  /\ LET s == st[p]
         file_name == Head(s.todo_files)
         file_path == Append(s.path, file_name)
         a == upload_file(remote, nextId, file_name, ParentId(s),
                         tree.size[file_path], fault)
         u == Uploaded(s, a.size)
         s1 == [u EXCEPT !.todo_files = Tail(@),
                         !.out = vecho(vecho(@, EntryEvent("file_uploaded", file_path)),
                                       ProgressEvent(u, file_path))]
         c == <<Call(s, "walk", "upload", file_name, ParentId(s), file_path, a)>>
     IN IF a.res = "ok"
          THEN \E s2 \in WalkNext(s1) : Commit(p, s2, a.remote, c, fault)
        ELSE Commit(p, Fail(s, a.res), a.remote, c, fault)

\* ------------------------------------------------------------ specification
FolderIds(r) == {RootId} \cup {e.id : e \in {x \in r : x.kind = "FOLDER"}}

Next ==
  \/ \E p \in Procs, target \in TargetChoice, force \in BOOLEAN :
       UploadFolderCall(p, target, force)
  \/ \E p \in Procs, target \in TargetChoice : GetTargetIdCall(p, target)
  \/ \E p \in Procs, parent \in FolderIds(remote), force \in BOOLEAN, fault \in FaultChoice :
       CreateFolderCall(p, parent, force, fault)
  \/ \E p \in Procs, fault \in FaultChoice : ResolveCreate(p, fault)
  \/ \E p \in Procs, fault \in FaultChoice : ResolveLookup(p, fault)
  \/ \E p \in Procs, fault \in FaultChoice : CreateRoot(p, fault)
  \/ \E p \in Procs, fault \in FaultChoice : WalkCreate(p, fault)
  \/ \E p \in Procs, fault \in FaultChoice : WalkUpload(p, fault)

Spec == Init /\ [][Next]_vars

\* A second specification: two client processes whose remote calls interleave.
InitConc == InitWith(Procs, MaxInputConc)
SpecConc == InitConc /\ [][Next]_vars

\* The upload client at rest, for the specifications of the other parts.
CoreOff ==
  /\ tree = [dirs |-> {}, files |-> {}, size |-> <<>>]
  /\ plan = [source |-> <<1>>, target |-> NoTarget, name |-> <<1>>, verbose |-> FALSE]
  /\ active = {}
  /\ remote = {}
  /\ nextId = Cardinality(Names) + 1
  /\ st = [p \in Procs |-> IdleProc]
  /\ ops = <<>>
  /\ calls = <<>>
  /\ faults = 0

\* ------------------------------------------------------------------ the walk
\* A third specification: one upload_folder to the root folder of an empty
\* remote, of deeper and larger trees, every file of the same size.
WalkPaths == UNION {[1..n -> Names] : n \in 1..MaxWalkDepth}

WalkTrees ==
  UNION {{[dirs |-> d, files |-> S \ d, size |-> [f \in S \ d |-> 2]] :
            d \in {Y \in SUBSET S : TreeOK(Y, S \ Y)}} :
         S \in {X \in SUBSET WalkPaths : Cardinality(X) <= MaxWalkNodes}}

InitWalk ==
  /\ tree \in WalkTrees
  /\ plan = [source |-> <<1>>, target |-> NoTarget, name |-> <<1>>, verbose |-> TRUE]
  /\ remote = {}
  /\ active = {1}
  /\ nextId = Cardinality(Names) + 1
  /\ st = [p \in Procs |-> IdleProc]
  /\ ops = <<>>
  /\ calls = <<>>
  /\ faults = 0
  /\ hs = Off /\ oauth = Off /\ relay = Off /\ cli = Off

NextWalk ==
  \/ \E p \in Procs : Len(ops) = 0 /\ UploadFolderCall(p, NoTarget, FALSE)
  \/ \E p \in Procs, fault \in FaultChoice : CreateRoot(p, fault)
  \/ \E p \in Procs, fault \in FaultChoice : WalkCreate(p, fault)
  \/ \E p \in Procs, fault \in FaultChoice : WalkUpload(p, fault)

SpecWalk == InitWalk /\ [][NextWalk]_vars

\* ---------------------------------------------------------------- human_size
\* The sizes human_size is called with: around every threshold, the sizes of
\* the tests, and sizes of several GB. No size lies exactly halfway between
\* two tenths of a GB, where the rounding of the float quotient decides.
HumanRests ==
  {0, 1, 80, 999, Kilo, Kilo + 1, 320480, Mega - 1, Mega, Mega + 1,
   2 * HundredMega, 4 * HundredMega, 450120000, 8 * HundredMega,
   949999999, 950000001, Giga - 1}
HumanSizes == [g : {0, 1, 2, 15}, r : HumanRests]

InitText ==
  /\ CoreOff
  /\ hs \in {[pc |-> "arg", size |-> z, text |-> Off] : z \in HumanSizes}
  /\ oauth = Off /\ relay = Off /\ cli = Off

\* The call human_size(size).
HumanSizeCall ==
  /\ hs.pc = "arg"
  /\ hs' = [hs EXCEPT !.pc = "ret", !.text = human_size(hs.size)]
  /\ UNCHANGED <<corevars, oauth, relay, cli>>

NextText == HumanSizeCall
SpecText == InitText /\ [][NextText]_vars

\* ------------------------------------------------------------ OAuth polling
\* The timeout and the retry period of the tests (test_auth.py:30-31).
DefaultTimeout == 300
DefaultRetry == 5

\* APP_OAUTH_TIMEOUT and APP_OAUTH_RETRY_PERIOD (auth.py:26-27), both positive.
OAuthConfigs ==
  [T : 1..MaxTimeout, R : 1..MaxRetry] \cup {[T |-> DefaultTimeout, R |-> DefaultRetry]}

\* The status codes the relay answers a poll with, and the texts of a token:
\* one that verifies, one that does not, and the empty text.
StatusCodes == {200, 404, 400, 500}
TokenTexts == {"good", "bad", ""}

InitOAuth ==
  /\ CoreOff
  /\ oauth \in {[pc |-> "start", T |-> c.T, R |-> c.R, remaining |-> 0, polls |-> 0,
                  sleeps |-> 0, slept |-> 0, answers |-> <<>>, out |-> <<>>,
                  ret |-> "none", code |-> -1, more |-> FALSE] : c \in OAuthConfigs}
  /\ hs = Off /\ relay = Off /\ cli = Off

\* auth.py:53-68: the authorization URL is opened or printed, the polling
\* is announced and the budget is set.
OAuthStart(opened) ==
  /\ oauth.pc = "start"
  /\ oauth' = [oauth EXCEPT !.pc = IF oauth.T # 0 THEN "poll" ELSE "exit",
                             !.remaining = oauth.T,
                             !.out = (IF opened THEN <<>> ELSE <<"link">>) \o <<"polling">>]
  /\ UNCHANGED <<corevars, hs, relay, cli>>

\* auth.py:73-85: what follows the response to a poll, up to the next poll.
OnResponseRetryAll(o, status, body) ==
  IF status = 200 THEN [o EXCEPT !.pc = "returned", !.ret = body]
  ELSE LET r == o.remaining - o.R IN
       [o EXCEPT !.remaining = r, !.sleeps = @ + 1, !.slept = @ + o.R,
                 !.pc = IF r # 0 THEN "poll" ELSE "exit",
                 !.code = IF r # 0 THEN @ ELSE 1,
                 !.out = IF r # 0 THEN @ ELSE Append(@, "timeout")]

OnResponse(o, status, body) ==
  IF status = 200 THEN [o EXCEPT !.pc = "returned", !.ret = body]
  ELSE IF status = 404
    THEN LET r == o.remaining - o.R IN
         [o EXCEPT !.remaining = r, !.sleeps = @ + 1, !.slept = @ + o.R,
                   !.pc = IF r # 0 THEN "poll" ELSE "exit",
                   !.code = IF r # 0 THEN @ ELSE 1,
                   !.out = IF r # 0 THEN @ ELSE Append(@, "timeout")]
  ELSE [o EXCEPT !.pc = "exit", !.code = 1, !.out = Append(@, "server_error")]

\* auth.py:69-71: one poll of the relay and its response.
OAuthPoll(status, body) ==
  /\ oauth.pc = "poll"
  /\ oauth.polls < MaxPolls
  /\ oauth' = OnResponse([oauth EXCEPT !.polls = @ + 1, !.answers = Append(@, status)],
                         status, body)
  /\ UNCHANGED <<corevars, hs, relay, cli>>

NextOAuth ==
  \/ \E opened \in BOOLEAN : OAuthStart(opened)
  \/ \E status \in StatusCodes, body \in TokenTexts :
       (status = 200 \/ body = "") /\ OAuthPoll(status, body)

SpecOAuth == InitOAuth /\ [][NextOAuth]_vars

\* auth.py:68-79 once the budget is below zero and MaxPolls polls are
\* counted: the loop goes on as before; the further polls and their answers
\* 404 are not counted any more, more tells whether their number is odd.
OAuthPollOn(status, body) ==
  /\ oauth.pc = "poll"
  /\ oauth.polls = MaxPolls
  /\ oauth.remaining < 0
  /\ LET o == OnResponse(IF status = 404 THEN oauth
                          ELSE [oauth EXCEPT !.answers = Append(@, status)], status, body)
     IN oauth' = [o EXCEPT !.remaining = oauth.remaining, !.sleeps = oauth.sleeps,
                        !.slept = oauth.slept, !.more = ~@]
  /\ UNCHANGED <<corevars, hs, relay, cli>>

NextOAuthOn ==
  \/ NextOAuth
  \/ \E status \in StatusCodes, body \in TokenTexts :
       (status = 200 \/ body = "") /\ OAuthPollOn(status, body)

\* The client keeps running: a poll that can be made is made.
SpecOAuthFair == InitOAuth /\ [][NextOAuthOn]_vars /\ WF_vars(NextOAuthOn)

\* ---------------------------------------------------------------- the relay
\* The states of the OAuth flows, a request without the parameter, and the
\* value Redis answers for a key it does not hold.
RelayStates == {"s1", "s2"}
MissingState == "missing"
NoToken == 0
Requests == 1..MaxRequests

NewRequest == [pc |-> "new", state |-> MissingState, value |-> NoToken, status |-> 0, body |-> NoToken]

InitRelay ==
  /\ CoreOff
  /\ relay = [pc |-> "on", db |-> [s \in RelayStates |-> NoToken],
               reqs |-> [r \in Requests |-> NewRequest], hist |-> <<>>,
               nextToken |-> 1, callbacks |-> 0, errors |-> 0]
  /\ hs = Off /\ oauth = Off /\ cli = Off

\* app.py:43-76: /oauth-callback exchanges the code for a token and stores
\* it under the state; a request without state or code is answered 400, a
\* failed exchange or store 500.
OAuthCallback(state, exchanged) ==
  /\ relay.pc = "on"
  /\ relay.callbacks < MaxStores
  /\ IF state = MissingState
       THEN relay' = [relay EXCEPT !.callbacks = @ + 1,
                                   !.hist = Append(@, [ev |-> "callback", state |-> state, status |-> 400])]
     ELSE IF ~exchanged
       THEN relay' = [relay EXCEPT !.callbacks = @ + 1,
                                   !.hist = Append(@, [ev |-> "callback", state |-> state, status |-> 500])]
     ELSE relay' = [relay EXCEPT !.db[state] = relay.nextToken,
                                 !.nextToken = @ + 1,
                                 !.callbacks = @ + 1,
                                 !.hist = Append(@, [ev |-> "set", state |-> state, token |-> relay.nextToken])]
  /\ UNCHANGED <<corevars, hs, oauth, cli>>

\* app.py:72: the stored token expires (ex=300).
Expire(state) ==
  /\ relay.pc = "on"
  /\ relay.db[state] # NoToken
  /\ relay' = [relay EXCEPT !.db[state] = NoToken,
                            !.hist = Append(@, [ev |-> "expire", state |-> state])]
  /\ UNCHANGED <<corevars, hs, oauth, cli>>

\* app.py:93: db.getdel(state), one atomic command of Redis.
GetKeep(db, state) == [value |-> db[state], db |-> db]

GetDel(db, state) == [value |-> db[state], db |-> [db EXCEPT ![state] = NoToken]]

\* app.py:87-95: a /get-access-token request up to its database command:
\* 400 without the state; 500 when the command raises, before or after
\* Redis has carried it out. The requests are numbered in the order in which
\* they reach the database.
ReqGetDel(r, state, error) ==
  /\ relay.pc = "on"
  /\ relay.reqs[r].pc = "new"
  /\ \A q \in Requests : q < r => relay.reqs[q].pc # "new"
  /\ error # "none" => state # MissingState /\ relay.errors < MaxFaults
  /\ IF state = MissingState
       THEN relay' = [relay EXCEPT !.reqs[r] = [@ EXCEPT !.pc = "done", !.status = 400]]
     ELSE LET g == GetDel(relay.db, state) IN
       IF error = "none"
         THEN relay' = [relay EXCEPT !.db = g.db,
                                     !.reqs[r] = [@ EXCEPT !.pc = "got", !.state = state, !.value = g.value],
                                     !.hist = Append(@, [ev |-> "getdel", state |-> state, req |-> r, value |-> g.value])]
         ELSE relay' = [relay EXCEPT !.db = IF error = "after" THEN g.db ELSE @,
                                     !.errors = @ + 1,
                                     !.reqs[r] = [@ EXCEPT !.pc = "done", !.state = state, !.status = 500],
                                     !.hist = IF error = "after"
                                                THEN Append(@, [ev |-> "lost", state |-> state, req |-> r, value |-> g.value])
                                                ELSE @]
  /\ UNCHANGED <<corevars, hs, oauth, cli>>

\* app.py:97-100: the answer of the request.
ReqRespond(r) ==
  /\ relay.pc = "on"
  /\ relay.reqs[r].pc = "got"
  /\ relay' = [relay EXCEPT !.reqs[r] =
                  IF relay.reqs[r].value = NoToken
                    THEN [@ EXCEPT !.pc = "done", !.status = 404]
                    ELSE [@ EXCEPT !.pc = "done", !.status = 200, !.body = relay.reqs[r].value]]
  /\ UNCHANGED <<corevars, hs, oauth, cli>>

NextRelay ==
  \/ \E state \in RelayStates \cup {MissingState}, exchanged \in BOOLEAN :
       OAuthCallback(state, exchanged)
  \/ \E state \in RelayStates : Expire(state)
  \/ \E r \in Requests, state \in RelayStates \cup {MissingState},
        error \in {"none", "before", "after"} : ReqGetDel(r, state, error)
  \/ \E r \in Requests : ReqRespond(r)

SpecRelay == InitRelay /\ [][NextRelay]_vars

\* ------------------------------------------------------- the command line
\* An option or environment variable that is not given is None; None and
\* the empty text are both false in a condition.
NoneText == "none"
OptionTexts == TokenTexts \cup {NoneText}
Truthy(text) == text \notin {NoneText, ""}

\* str.strip("/").
RECURSIVE LStrip(_)
LStrip(s) == IF s # <<>> /\ s[1] = Slash THEN LStrip(Tail(s)) ELSE s

RECURSIVE RStrip(_)
RStrip(s) == IF s # <<>> /\ s[Len(s)] = Slash THEN RStrip(SubSeq(s, 1, Len(s) - 1)) ELSE s

Strip(s) == RStrip(LStrip(s))

\* The targets and names given on the command line; <<>> is none given.
CliTargets == {NoTarget, <<1>>, <<Slash, 1, Slash>>, <<Slash, Slash>>}
CliNames == {<<>>, <<1, 2>>}

\* The number of parameters of upload_folder (core.py:34-40).
UploadFolderArity == 5

CliCommon ==
  [pc |-> "start", access_token |-> NoneText, verifies |-> <<>>, calls |-> <<>>,
   out |-> <<>>, code |-> -1, body |-> NoneText, raised |-> NoneText,
   username |-> NoneText, password |-> NoneText, answers |-> <<>>]

CliLogins ==
  {CliCommon @@ [cmd |-> "login", token |-> t, prompt |-> p, cached |-> a, stored |-> a,
                 client_id |-> i, client_secret |-> x, target |-> NoTarget, name |-> <<>>,
                 force |-> FALSE, verbose |-> TRUE] :
     t \in OptionTexts, p \in BOOLEAN, a \in OptionTexts,
     i \in {NoneText, "C_ID"}, x \in {NoneText, "C_SCRT"}}

CliUploads ==
  {CliCommon @@ [cmd |-> "upload", token |-> t, prompt |-> FALSE, cached |-> a, stored |-> a,
                 client_id |-> NoneText, client_secret |-> NoneText, target |-> g, name |-> n,
                 force |-> f, verbose |-> v] :
     t \in OptionTexts, a \in OptionTexts, g \in CliTargets, n \in CliNames,
     f \in BOOLEAN, v \in BOOLEAN}

\* Direct calls get_token_from_credentials(client_id, client_secret,
\* username, password) (auth.py:88-93).
CliCredentials ==
  {[CliCommon EXCEPT !.username = u, !.password = w]
     @@ [cmd |-> "credentials", token |-> NoneText, prompt |-> TRUE, cached |-> NoneText,
         stored |-> NoneText, client_id |-> i, client_secret |-> x, target |-> NoTarget,
         name |-> <<>>, force |-> FALSE, verbose |-> TRUE] :
     u \in {NoneText, "", "user"}, w \in {NoneText, "pass"},
     i \in {NoneText, "", "C_ID"}, x \in {NoneText, "C_SCRT"}}

InitCli ==
  /\ CoreOff
  /\ cli \in CliLogins \cup CliUploads \cup CliCredentials
  /\ hs = Off /\ oauth = Off /\ relay = Off

\* typer.echo(message) followed by raise typer.Exit(code).
CliExit(c, message, code) ==
  [c EXCEPT !.pc = "exit", !.out = Append(@, message), !.code = code]

CalledFn(c, fn, args) == [c EXCEPT !.calls = Append(@, [fn |-> fn, args |-> args])]

\* putio.auth.verify_token(token) (auth.py:143-159) answered ok.
Verified(c, token, ok) == [c EXCEPT !.verifies = Append(@, [token |-> token, ok |-> ok])]

\* cli.py:66-78: the source of the token of login.
LoginSourceTokenFirst(token, prompt, cached) ==
  IF Truthy(token) THEN "token"
  ELSE IF prompt THEN "prompt"
  ELSE IF Truthy(cached) THEN "cached"
  ELSE "oauth"

LoginSource(token, prompt, cached) ==
  IF Truthy(token) /\ prompt THEN "exclusive"
  ELSE IF Truthy(token) THEN "token"
  ELSE IF prompt THEN "prompt"
  ELSE IF Truthy(cached) THEN "cached"
  ELSE "oauth"

\* cli.py:78: get_token_from_oauth() is called.
StartOAuth(c) == [CalledFn(c, "get_token_from_oauth", <<>>) EXCEPT !.pc = "oauth"]

\* cli.py:80: an empty token is not verified.
GotToken(c, token) ==
  IF ~Truthy(token) THEN CliExit(c, <<"not_authorized">>, 1)
  ELSE [c EXCEPT !.pc = "verify", !.access_token = token]

\* cli.py:66-78 up to the first call the command makes.
LoginStart ==
  /\ cli.pc = "start" /\ cli.cmd = "login"
  /\ LET source == LoginSource(cli.token, cli.prompt, cli.cached) IN
     cli' = CASE source = "exclusive" -> CliExit(cli, <<"mutually_exclusive">>, 1)
              [] source = "token" -> GotToken(cli, cli.token)
              [] source = "prompt" ->
                   [CalledFn(cli, "get_token_from_credentials", <<cli.client_id, cli.client_secret>>)
                      EXCEPT !.pc = "credentials"]
              [] source = "cached" -> [cli EXCEPT !.pc = "verify_cached"]
              [] OTHER -> StartOAuth(cli)
  /\ UNCHANGED <<corevars, hs, oauth, relay>>

\* cli.py:74-78: the cached token is verified.
LoginVerifyCached(ok) ==
  /\ cli.pc = "verify_cached" /\ cli.cmd = "login"
  /\ ok => cli.cached # "bad"
  /\ LET c == Verified(cli, cli.cached, ok) IN
     cli' = IF ok THEN CliExit(c, <<"already_logged_in">>, 0) ELSE StartOAuth(c)
  /\ UNCHANGED <<corevars, hs, oauth, relay>>

\* typer.prompt("Username") and typer.prompt("Password", hide_input=True):
\* the texts the user types.
Prompted(c) == CalledFn(CalledFn(c, "prompt", <<"Username">>), "prompt", <<"Password">>)

Answered(c, fn, status, body) ==
  [c EXCEPT !.answers = Append(@, [fn |-> fn, status |-> status, body |-> body])]

\* auth.py:112: the relay is used unless both the client id and the client
\* secret are there.
NeedsRelayBothMissing(client_id, client_secret) == ~Truthy(client_id) /\ ~Truthy(client_secret)

NeedsRelay(client_id, client_secret) == ~(Truthy(client_id) /\ Truthy(client_secret))

\* get_token_from_credentials (auth.py:112-140): status and body are the
\* answer of the relay, granted and body that of the credential grant.
get_token_from_credentials(c, client_id, client_secret, username, password, status, body, granted) ==
  IF NeedsRelay(client_id, client_secret)
    THEN LET d == Answered(CalledFn(Prompted(c), "relay_create_access_token",
                                    <<"typed_user", "typed_pass">>),
                           "relay_create_access_token", status, body)
         IN IF status = 200
              THEN [c |-> d, returned |-> TRUE, token |-> body, message |-> NoneText]
            ELSE [c |-> d, returned |-> FALSE, token |-> NoneText, message |-> "server_error"]
  ELSE LET asked == ~(Truthy(username) /\ Truthy(password))
           c1 == IF asked THEN Prompted(c) ELSE c
           u == IF asked THEN "typed_user" ELSE username
           w == IF asked THEN "typed_pass" ELSE password
           d == Answered(CalledFn(c1, "create_access_token", <<client_id, client_secret, u, w>>),
                         "create_access_token", IF granted THEN 200 ELSE 401,
                         IF granted THEN body ELSE "")
       IN IF granted
            THEN [c |-> d, returned |-> TRUE, token |-> body, message |-> NoneText]
          ELSE [c |-> d, returned |-> FALSE, token |-> NoneText, message |-> "create_error"]

\* get_token_from_credentials (auth.py:112-140) as login calls it, without
\* username and password: without the client id or secret one request to
\* the relay, with both one credential grant of the service.
LoginCredentials(status, body, granted) ==
  /\ cli.pc = "credentials" /\ cli.cmd = "login"
  /\ LET f == get_token_from_credentials(cli, cli.client_id, cli.client_secret,
                                         NoneText, NoneText, status, body, granted)
     IN cli' = IF f.returned THEN GotToken(f.c, f.token) ELSE CliExit(f.c, <<f.message>>, 1)
  /\ UNCHANGED <<corevars, hs, oauth, relay>>

\* The call get_token_from_credentials(client_id, client_secret, username,
\* password) by itself.
CredentialsCall(status, body, granted) ==
  /\ cli.pc = "start" /\ cli.cmd = "credentials"
  /\ LET f == get_token_from_credentials(cli, cli.client_id, cli.client_secret,
                                         cli.username, cli.password, status, body, granted)
     IN cli' = IF f.returned THEN [f.c EXCEPT !.pc = "returned", !.access_token = f.token]
               ELSE CliExit(f.c, <<f.message>>, 1)
  /\ UNCHANGED <<corevars, hs, oauth, relay>>

\* get_token_from_oauth (auth.py:30-85) returns the body of the 200 answer
\* or leaves with exit code 1.
LoginOAuth(returned, body) ==
  /\ cli.pc = "oauth" /\ cli.cmd = "login"
  /\ cli' = IF returned THEN GotToken(cli, body)
            ELSE CliExit(cli, <<"oauth_failed">>, 1)
  /\ UNCHANGED <<corevars, hs, oauth, relay>>

\* cli.py:84: dotenv.set_key(".env.secret", "PUTIO_ACCESS_TOKEN",
\* access_token), reached when the token verified.
StoreUnverified(c, ok) == [c EXCEPT !.stored = c.access_token]

StoreVerified(c, ok) == IF ok THEN [c EXCEPT !.stored = c.access_token] ELSE c

\* cli.py:80-86: the token is verified and stored.
LoginVerify(ok) ==
  /\ cli.pc = "verify" /\ cli.cmd = "login"
  /\ ok => cli.access_token # "bad"
  /\ LET c == Verified(cli, cli.access_token, ok) IN
     cli' = IF ok THEN CliExit(StoreVerified(c, ok), <<"logged_in">>, 0)
            ELSE CliExit(StoreVerified(c, ok), <<"not_authorized">>, 1)
  /\ UNCHANGED <<corevars, hs, oauth, relay>>

\* cli.py:139-145: the cached token of upload.
UploadCachedUnverified(c) ==
  IF Truthy(c.cached) THEN [c EXCEPT !.pc = "core", !.access_token = c.cached]
  ELSE CliExit(c, <<"not_logged_in">>, 1)

UploadCached(c) ==
  IF Truthy(c.cached) THEN [c EXCEPT !.pc = "verify_cached"]
  ELSE CliExit(c, <<"not_logged_in">>, 1)

\* cli.py:137: upload up to its first call.
UploadStart ==
  /\ cli.pc = "start" /\ cli.cmd = "upload"
  /\ cli' = IF Truthy(cli.token) THEN [cli EXCEPT !.pc = "verify_token"] ELSE UploadCached(cli)
  /\ UNCHANGED <<corevars, hs, oauth, relay>>

\* cli.py:137-138: the token of the option is verified.
UploadVerifyToken(ok) ==
  /\ cli.pc = "verify_token" /\ cli.cmd = "upload"
  /\ ok => cli.token # "bad"
  /\ LET c == Verified(cli, cli.token, ok) IN
     cli' = IF ok THEN [c EXCEPT !.pc = "core", !.access_token = c.token]
            ELSE UploadCached(c)
  /\ UNCHANGED <<corevars, hs, oauth, relay>>

\* cli.py:139-145: the cached token is verified.
UploadVerifyCached(ok) ==
  /\ cli.pc = "verify_cached" /\ cli.cmd = "upload"
  /\ ok => cli.cached # "bad"
  /\ LET c == Verified(cli, cli.cached, ok) IN
     cli' = IF ok THEN [c EXCEPT !.pc = "core", !.access_token = c.cached]
            ELSE CliExit(c, <<"not_logged_in">>, 1)
  /\ UNCHANGED <<corevars, hs, oauth, relay>>

\* The ways the body of upload_folder ends for a source and a remote.
BodyOutcomes == {"ok", "NameClash", "NameClashWithFile", "UnknownAPI", "Exit", "Abort", "OSError"}

\* The way a call of upload_folder ends: a call with another number of
\* arguments than the function has parameters raises TypeError before the
\* body runs.
Raised(args, body) == IF Len(args) # UploadFolderArity THEN "TypeError" ELSE body

\* cli.py:155-164: the exit of upload for the way the call ended.
OnRaised(c, outcome) ==
  CASE outcome = "ok" -> [c EXCEPT !.pc = "exit", !.code = 0]
    [] outcome \in {"Exit", "Abort"} -> [c EXCEPT !.pc = "exit", !.code = 1]
    [] outcome \in {"NameClash", "NameClashWithFile", "UnknownAPI"} ->
         CliExit(c, <<outcome>>, 1)
    [] OTHER -> CliExit(c, <<"unknown_error", outcome>>, 1)

\* cli.py:147-164: the call of upload_folder and the exit of the command.
UploadCore(outcome) ==
  /\ cli.pc = "core" /\ cli.cmd = "upload"
  /\ LET source == SourceStr
         target == IF cli.target # NoTarget THEN Strip(cli.target) ELSE cli.target
         name == IF cli.name = <<>> THEN Last(Split(source)) ELSE cli.name
         args == <<source, target, name, cli.force, cli.access_token, cli.verbose>>
         c == [CalledFn(cli, "upload_folder", args) EXCEPT !.body = outcome,
                                                            !.raised = Raised(args, outcome)]
     IN cli' = OnRaised(c, c.raised)
  /\ UNCHANGED <<corevars, hs, oauth, relay>>

NextCli ==
  \/ LoginStart
  \/ \E ok \in BOOLEAN : LoginVerifyCached(ok)
  \/ \E status \in StatusCodes, body \in TokenTexts, granted \in BOOLEAN :
       LoginCredentials(status, body, granted)
  \/ \E status \in StatusCodes, body \in TokenTexts, granted \in BOOLEAN :
       CredentialsCall(status, body, granted)
  \/ \E returned \in BOOLEAN, body \in TokenTexts : LoginOAuth(returned, body)
  \/ \E ok \in BOOLEAN : LoginVerify(ok)
  \/ UploadStart
  \/ \E ok \in BOOLEAN : UploadVerifyToken(ok)
  \/ \E ok \in BOOLEAN : UploadVerifyCached(ok)
  \/ \E outcome \in BodyOutcomes : UploadCore(outcome)

SpecCli == InitCli /\ [][NextCli]_vars

\* ================================================================== claims
\* The remote calls of invocation k, in order.
OpCalls(k) == SelectSeq(calls, LAMBDA c : c.op = k)

\* The remote calls invocation k made as upload_folder itself: the creation of
\* the root mirror and the calls of the walk.
MirrorCalls(k) == SelectSeq(calls, LAMBDA c : c.op = k /\ c.phase \in {"root", "walk"})
ResolveCalls(k) == SelectSeq(calls, LAMBDA c : c.op = k /\ c.phase = "resolve")

IsPrefix(a, b) == Len(a) <= Len(b) /\ SubSeq(b, 1, Len(a)) = a
ProperPrefix(a, b) == Len(a) < Len(b) /\ SubSeq(b, 1, Len(a)) = a

UploadOk(k) == ops[k].kind = "upload_folder" /\ ops[k].res = "ok"

CountCalls(cs, call, path) ==
  Cardinality({i \in 1..Len(cs) : cs[i].call = call /\ cs[i].path = path})

\* C1: a successful upload_folder issues exactly one create-folder call for each
\* directory of the tree (the source directory included) and exactly one upload
\* call for each file, and the create-folder call of a directory comes before
\* every call for anything inside that directory.
C1_OneCallPerNodeParentFirst ==
  \A k \in 1..Len(ops) :
    UploadOk(k) =>
      LET cs == MirrorCalls(k) IN
      /\ \A d \in tree.dirs \cup {<<>>} : CountCalls(cs, "create_folder", d) = 1
      /\ \A f \in tree.files : CountCalls(cs, "upload", f) = 1
      /\ Len(cs) = Cardinality(tree.dirs) + 1 + Cardinality(tree.files)
      /\ \A i \in 1..Len(cs) : cs[i].call \in {"create_folder", "upload"} /\ cs[i].res = "ok"
      /\ \A i, j \in 1..Len(cs) :
           (cs[i].call = "create_folder" /\ ProperPrefix(cs[i].path, cs[j].path)) => i < j

\* C1 witness: a successful upload of a tree with a file inside a subdirectory
\* and a second entry beside it.
C1_Witness ==
  \E k \in 1..Len(ops) :
    /\ UploadOk(k)
    /\ \E f \in tree.files : Len(f) = 2
    /\ Cardinality(tree.dirs \cup tree.files) >= 3

\* The id the remote call c returned.
ReturnedBy(cs, call, path) ==
  {cs[i].id : i \in {j \in 1..Len(cs) : cs[j].call = call /\ cs[j].path = path /\ cs[j].res = "ok"}}

\* The id target resolution of invocation k returned: the id of its last
\* remote call, or the root id when it made none.
ResolvedId(k) ==
  LET rs == ResolveCalls(k) IN IF rs = <<>> THEN RootId ELSE rs[Len(rs)].id

\* The paths and types of everything below the remote folder id.
RECURSIVE Below(_, _, _)
Below(r, id, prefix) ==
  UNION {{<<Append(prefix, e.name), e.kind>>}
           \cup (IF e.kind = "FOLDER" THEN Below(r, e.id, Append(prefix, e.name)) ELSE {}) :
         e \in RemoteList(r, id)}

LocalNodes(t) == {<<d, "FOLDER">> : d \in t.dirs} \cup {<<f, "FILE">> : f \in t.files}

\* C2: the root mirror is created under the id target resolution returned;
\* every subdirectory and file is created under the id returned by the
\* create-folder call of its local parent directory; after a successful run
\* the remote tree below the root mirror has the names and the parent
\* relation of the local tree.
C2_ParentIdsChainAndMirror ==
  \A k \in 1..Len(ops) :
    ops[k].kind = "upload_folder" =>
      LET cs == MirrorCalls(k) IN
      /\ \A i \in 1..Len(cs) :
           IF cs[i].phase = "root" THEN cs[i].parent = ResolvedId(k) /\ cs[i].name = ops[k].name
           ELSE /\ ReturnedBy(cs, "create_folder", Front(cs[i].path)) = {cs[i].parent}
                /\ cs[i].name = Last(cs[i].path)
      /\ (ops[k].res = "ok" /\ k = Len(ops)) =>
           \E e \in remote :
             /\ e.id = cs[1].id /\ e.kind = "FOLDER"
             /\ e.name = ops[k].name /\ e.parent = ResolvedId(k)
             /\ Below(remote, e.id, <<>>) = LocalNodes(tree)
             /\ \A f \in tree.files :
                  \E x \in remote : x.id \in ReturnedBy(cs, "upload", f) /\ x.size = tree.size[f]

\* C2 witness: a successful upload into a resolved target of a tree with a
\* file inside a subdirectory.
C2_Witness ==
  \E k \in 1..Len(ops) :
    /\ UploadOk(k) /\ k = Len(ops)
    /\ ops[k].target # NoTarget
    /\ \E f \in tree.files : Len(f) = 2

\* The calls of a walk without the ids: what is called, and for which local path.
Shape(cs) == [i \in 1..Len(cs) |-> <<cs[i].call, cs[i].path>>]

\* C3: in every visited directory the sibling subdirectories are created in
\* lexicographic order of their names and the sibling files are uploaded in
\* lexicographic order of their names, whatever the order of enumeration; two
\* runs over the same tree issue the same sequence of calls.
C3_SiblingsInLexOrder ==
  /\ \A k \in 1..Len(ops) :
       LET cs == MirrorCalls(k) IN
       \A i, j \in 1..Len(cs) :
         (/\ i < j
          /\ cs[i].phase = "walk" /\ cs[j].phase = "walk"
          /\ cs[i].call = cs[j].call
          /\ Front(cs[i].path) = Front(cs[j].path))
           => LexLess(cs[i].name, cs[j].name)
  /\ \A k1, k2 \in 1..Len(ops) :
       (ops[k1].kind = "upload_folder" /\ ops[k2].kind = "upload_folder") =>
         LET a == Shape(MirrorCalls(k1))
             b == Shape(MirrorCalls(k2))
         IN /\ IsPrefix(a, b) \/ IsPrefix(b, a)
            /\ (ops[k1].res = "ok" /\ ops[k2].res = "ok") => a = b

\* C3 witness: two successful uploads of a tree in which a directory holds two
\* entries of the same type.
C3_Witness ==
  /\ Len(ops) = 2 /\ UploadOk(1) /\ UploadOk(2)
  /\ \E d \in tree.dirs \cup {<<>>} :
       Cardinality(SubdirNames(tree, d)) = 2 \/ Cardinality(FileNames(tree, d)) = 2

DirectCreate(k) == ops[k].kind = "create_folder"

\* What held the name of invocation k in its parent folder when k began.
Holders(k, kind) ==
  {e \in ops[k].pre : e.parent = ops[k].parent /\ e.name = ops[k].name /\ e.kind = kind}
Taken(k) == Holders(k, "FOLDER") \cup Holders(k, "FILE") # {}

NoFault(cs) == \A i \in 1..Len(cs) : cs[i].err # "SOME_OTHER_ERROR"
CountOf(cs, call) == Cardinality({i \in 1..Len(cs) : cs[i].call = call})

C5_ForceReplacesFolder ==
  \A k \in 1..Len(ops) :
    (DirectCreate(k) /\ ops[k].force /\ Holders(k, "FOLDER") # {}) =>
      LET cs == OpCalls(k) IN
      NoFault(cs) =>
        /\ ops[k].res = "ok"
        /\ CountOf(cs, "list") = 1
        /\ CountOf(cs, "delete") = 1
        /\ CountOf(cs, "create_folder") = 2
        /\ ops[k].ret \notin {e.id : e \in ops[k].pre}

\* C6: with force, create_folder(x, parent=P) when x exists in P as a file
\* fails with NameClashWithFile and issues no delete call; no remote file is
\* ever deleted or replaced.
C6_ForceNeverReplacesFile ==
  /\ \A k \in 1..Len(ops) :
       (DirectCreate(k) /\ ops[k].force /\ Holders(k, "FILE") # {}) =>
         LET cs == OpCalls(k) IN
         /\ CountOf(cs, "delete") = 0
         /\ NoFault(cs) => ops[k].res = "NameClashWithFile"
  /\ \A k \in 1..Len(ops) : \A e \in ops[k].pre : e.kind = "FILE" => e \in remote

\* The second half of C6 alone: every file the remote ever held is still there.
FilesAreKept ==
  /\ \A k \in 1..Len(ops) : \A e \in ops[k].pre : e.kind = "FILE" => e \in remote
  /\ \A i \in 1..Len(calls) : calls[i].call # "delete"

\* C7: uploading the same source with the same name and target twice: without
\* force the second upload_folder fails with NameClash on the root mirror;
\* with force on the second invocation both succeed; an invocation without
\* force after that fails with NameClash again.
C7_RepeatedUpload ==
  \A k \in 2..Len(ops) :
    (/\ UploadOk(k - 1)
     /\ ops[k].kind = "upload_folder" /\ ops[k].target = ops[k - 1].target
     /\ ops[k].res # "running" /\ NoFault(OpCalls(k)))
      => IF ops[k].force THEN ops[k].res = "ok"
         ELSE LET cs == OpCalls(k) IN
              /\ ops[k].res = "NameClash"
              /\ cs[Len(cs)].phase = "root" /\ cs[Len(cs)].res = "NameClash"

\* The part of C7 the code has: the repeated upload without force.
C7_RepeatedUploadNoForce ==
  \A k \in 2..Len(ops) :
    (/\ UploadOk(k - 1)
     /\ ops[k].kind = "upload_folder" /\ ops[k].target = ops[k - 1].target
     /\ ~ops[k].force
     /\ ops[k].res # "running" /\ NoFault(OpCalls(k)))
      => LET cs == OpCalls(k) IN
         /\ ops[k].res = "NameClash"
         /\ cs[Len(cs)].phase = "root" /\ cs[Len(cs)].res = "NameClash"

Comps(k) == Split(ops[k].target)

\* No entry of the root folder had the name of a component when k began.
FreshTarget(k) ==
  \A e \in ops[k].pre : e.parent = RootId => e.name \notin Range(Comps(k))

\* C10: get_target_id on a path of n components none of which exists at the
\* root issues exactly n create-folder calls in path order, the first under
\* the root id 0 and each later one under the id the previous creation
\* returned, and returns the id of the last created folder.
C10_ResolveCreatesChain ==
  \A k \in 1..Len(ops) :
    (ops[k].kind = "get_target_id" /\ ops[k].target # NoTarget /\ FreshTarget(k)) =>
      LET rs == OpCalls(k)
          n == Len(Comps(k))
      IN /\ Len(rs) <= n
         /\ \A i \in 1..Len(rs) :
              /\ rs[i].call = "create_folder"
              /\ rs[i].name = Comps(k)[i]
              /\ rs[i].parent = IF i = 1 THEN RootId ELSE rs[i - 1].id
         /\ (ops[k].res # "running" /\ NoFault(rs)) =>
              /\ Len(rs) = n
              /\ \A i \in 1..n : rs[i].res = "ok"
              /\ ops[k].res = "ok"
              /\ ops[k].ret = rs[n].id

\* C10 witness: get_target_id returned after creating a path of two components.
C10_Witness ==
  \E k \in 1..Len(ops) :
    /\ ops[k].kind = "get_target_id" /\ FreshTarget(k)
    /\ Len(Comps(k)) = 2 /\ ops[k].res = "ok" /\ Len(OpCalls(k)) = 2

\* The invocations that resolve a target: get_target_id itself, and an
\* upload_folder that got past its signature.
Resolves(k) ==
  /\ ops[k].target # NoTarget
  /\ \/ ops[k].kind = "get_target_id"
     \/ ops[k].kind = "upload_folder" /\ ops[k].res # "TypeError"

\* The folder the components lead to in r, from the folder pid on; -1 when a
\* component is missing or is not a folder.
RECURSIVE PathIdFrom(_, _, _)
PathIdFrom(r, pid, comps) ==
  IF comps = <<>> THEN pid
  ELSE LET m == {e \in RemoteList(r, pid) : e.name = Head(comps) /\ e.kind = "FOLDER"} IN
       IF m = {} THEN -1 ELSE PathIdFrom(r, (CHOOSE e \in m : TRUE).id, Tail(comps))

NameHeld(r, name, pid) == \E e \in RemoteList(r, pid) : e.name = name

\* C11: get_target_id on a path whose leading components exist as folders:
\* after the NameClash of the creation it lists the current parent and takes
\* the id of the existing folder of that name, puts the next component under
\* that id, creates only the components that were missing, and never leaves
\* two entries of one name in a folder; when the whole path existed it returns
\* the id of the existing last folder.
C11_ResolveReusesFolders ==
  /\ \A e, f \in remote : (e.parent = f.parent /\ e.name = f.name) => e = f
  /\ \A k \in 1..Len(ops) :
       Resolves(k) =>
         LET rs == ResolveCalls(k) IN
         /\ \A i \in 1..Len(rs) :
              /\ (rs[i].call = "create_folder" /\ rs[i].res = "NameClash" /\ i < Len(rs)) =>
                   /\ rs[i + 1].call = "list"
                   /\ rs[i + 1].name = rs[i].name /\ rs[i + 1].parent = rs[i].parent
              /\ (rs[i].call = "list" /\ rs[i].res = "ok" /\ rs[i].id # -1) =>
                   /\ \E e \in ops[k].pre :
                        /\ e.id = rs[i].id /\ e.kind = "FOLDER"
                        /\ e.name = rs[i].name /\ e.parent = rs[i].parent
                        /\ e \in remote
                   /\ i < Len(rs) =>
                        /\ rs[i + 1].call = "create_folder"
                        /\ rs[i + 1].parent = rs[i].id
              /\ (rs[i].call = "create_folder" /\ rs[i].res = "ok") =>
                   ~NameHeld(ops[k].pre, rs[i].name, rs[i].parent)
         /\ (ops[k].kind = "get_target_id" /\ ops[k].res = "ok"
               /\ PathIdFrom(ops[k].pre, RootId, Comps(k)) # -1) =>
              /\ ops[k].ret = PathIdFrom(ops[k].pre, RootId, Comps(k))
              /\ CountOf(rs, "create_folder") = Len(Comps(k))
              /\ \A i \in 1..Len(rs) : rs[i].call = "create_folder" => rs[i].res = "NameClash"

\* C11 witness: get_target_id on a path of two components returned after it
\* found the first as an existing folder and created the second under its id.
C11_Witness ==
  \E k \in 1..Len(ops) :
    /\ ops[k].kind = "get_target_id" /\ ops[k].res = "ok"
    /\ LET rs == ResolveCalls(k) IN
       /\ Len(rs) = 3
       /\ rs[2].call = "list" /\ rs[2].id # -1
       /\ rs[3].call = "create_folder" /\ rs[3].res = "ok" /\ rs[3].parent = rs[2].id

\* The index of the first component of the target of k that was held by a
\* file when k began, its leading components being folders; 0 when none.
FileClashIndex(k) ==
  LET cs == Comps(k)
      hit == {i \in 1..Len(cs) :
                LET pid == PathIdFrom(ops[k].pre, RootId, SubSeq(cs, 1, i - 1)) IN
                /\ pid # -1
                /\ \E e \in RemoteList(ops[k].pre, pid) : e.name = cs[i] /\ e.kind = "FILE"}
  IN IF hit = {} THEN 0 ELSE CHOOSE i \in hit : TRUE

\* The invocation k, whose target runs into a file, ended as C12 says: with
\* NameClashWithFile for the clashing component and the current parent id,
\* raised after the lookup of that component, with nothing created or looked
\* up for a later component, no root mirror and no upload.
AbortedAtFile(k) ==
  LET cs == OpCalls(k)
      i == FileClashIndex(k)
      last == cs[Len(cs)]
  IN /\ ops[k].res = "NameClashWithFile"
     /\ cs # <<>>
     /\ last.call = "list" /\ last.res = "ok" /\ last.id = -1
     /\ last.name = Comps(k)[i]
     /\ last.parent = PathIdFrom(ops[k].pre, RootId, SubSeq(Comps(k), 1, i - 1))
     /\ Len(cs) = 2 * i
     /\ \A j \in 1..Len(cs) :
          /\ cs[j].phase = "resolve"
          /\ cs[j].name = Comps(k)[(j + 1) \div 2]
          /\ cs[j].call = IF j % 2 = 1 THEN "create_folder" ELSE "list"
          /\ cs[j].call = "create_folder" => cs[j].res = "NameClash"
     /\ \A e \in remote : e.id \notin {cs[j].id : j \in 1..Len(cs)} \/ e \in ops[k].pre

\* C12: an invocation whose target path runs into an entry that is not a
\* folder fails with NameClashWithFile(component, current parent id); no later
\* component is created or looked up, the root mirror is not created and no
\* file is uploaded; the same with force.
C12_FileOnTargetPathAborts ==
  \A k \in 1..Len(ops) :
    (/\ ops[k].kind \in {"get_target_id", "upload_folder"}
     /\ ops[k].target # NoTarget
     /\ FileClashIndex(k) # 0
     /\ ops[k].res # "running" /\ NoFault(OpCalls(k)))
      => AbortedAtFile(k)

\* The part of C12 the code has: the same for the calls its signatures admit.
C12_FileOnTargetPathAbortsNoForce ==
  \A k \in 1..Len(ops) :
    (/\ ops[k].kind \in {"get_target_id", "upload_folder"}
     /\ ~ops[k].force
     /\ ops[k].target # NoTarget
     /\ FileClashIndex(k) # 0
     /\ ops[k].res # "running" /\ NoFault(OpCalls(k)))
      => AbortedAtFile(k)

\* An upload_folder without force ended at a file that an earlier upload had
\* put on the target path, below an existing folder.
C12_NestedFileReached ==
  \E k \in 1..Len(ops) :
    /\ ops[k].kind = "upload_folder" /\ ~ops[k].force
    /\ FileClashIndex(k) = 2 /\ ops[k].res = "NameClashWithFile"

\* Invocation k is get_target_id called again with the path of the successful
\* get_target_id before it, nothing else having run in between.
ResolvedAgain(k) ==
  /\ k >= 2
  /\ ops[k - 1].kind = "get_target_id" /\ ops[k - 1].res = "ok"
  /\ ops[k].kind = "get_target_id" /\ ops[k].target = ops[k - 1].target
  /\ ops[k].res # "running"

\* C13: get_target_id called a second time with the same path, with nothing
\* else changing the remote in between, raises no error, returns the id the
\* first call returned, and leaves the set of remote entries as it was.
C13_ResolveIdempotent ==
  \A k \in 1..Len(ops) :
    (ResolvedAgain(k) /\ NoFault(OpCalls(k))) =>
      /\ ops[k].res = "ok"
      /\ ops[k].ret = ops[k - 1].ret
      /\ \A i \in 1..Len(calls) : (calls[i].op = k /\ calls[i].call = "create_folder") => calls[i].res # "ok"
      /\ k = Len(ops) => remote = ops[k].pre

\* C13 witness: get_target_id has returned twice for a path of two components.
C13_Witness ==
  /\ Len(ops) = 2 /\ ResolvedAgain(2)
  /\ Len(Comps(2)) = 2 /\ ops[2].res = "ok"
  /\ Len(OpCalls(1)) = 2 /\ Len(OpCalls(2)) = 4

\* C14: get_target_id with no target (None or the empty string) returns the
\* root id 0 and issues no remote call; an upload_folder with no target
\* issues no call of target resolution and creates its root mirror under 0.
C14_NoTargetIsRoot ==
  \A k \in 1..Len(ops) :
    ops[k].target = NoTarget =>
      /\ ResolveCalls(k) = <<>>
      /\ ops[k].kind = "get_target_id" =>
           /\ ops[k].res = "ok" /\ ops[k].ret = RootId
           /\ OpCalls(k) = <<>>
           /\ k = Len(ops) => remote = ops[k].pre
      /\ ops[k].kind = "upload_folder" =>
           \A i \in 1..Len(calls) :
             (calls[i].op = k /\ calls[i].phase = "root") => calls[i].parent = RootId

\* C14 witness: get_target_id with no target has returned, on a remote that
\* holds an entry.
C14_Witness ==
  \E k \in 1..Len(ops) :
    /\ ops[k].kind = "get_target_id" /\ ops[k].target = NoTarget
    /\ ops[k].res = "ok" /\ ops[k].pre # {}

\* The local files whose upload invocation k has completed.
UploadedPaths(k) ==
  {calls[i].path : i \in {j \in 1..Len(calls) :
      calls[j].op = k /\ calls[j].call = "upload" /\ calls[j].res = "ok"}}

\* The progress lines of an output, in order.
ProgressLines(out) == SelectSeq(out, LAMBDA e : e.ev = "progress")

\* C15: in every upload_folder invocation the uploaded counters are what the
\* completed uploads add up to, uploaded_count being their number; the totals
\* are the number and the sizes of the local files; at the end of a
\* successful invocation uploaded_count = total_count and uploaded_size =
\* total_size; the progress lines report 1 of N, 2 of N, ..., N of N in order.
C15_CountersMeetTotals ==
  \A p \in Procs :
    st[p].kind = "upload_folder" =>
      LET s == st[p]
          pl == ProgressLines(s.out)
      IN /\ s.uploaded_count = Cardinality(UploadedPaths(s.op))
         /\ s.uploaded_size = SumSizes(tree, UploadedPaths(s.op))
         /\ s.source_id # -1 =>
              /\ s.total_count = Cardinality(tree.files)
              /\ s.total_size = SumSizes(tree, tree.files)
         /\ s.pc = "done" =>
              /\ s.uploaded_count = s.total_count
              /\ s.uploaded_size = s.total_size
         /\ Len(pl) = IF plan.verbose THEN s.uploaded_count ELSE 0
         /\ \A i \in 1..Len(pl) : pl[i].count = i /\ pl[i].total = s.total_count
         /\ \A i \in 2..Len(pl) : pl[i].size >= pl[i - 1].size
         /\ (s.pc = "done" /\ pl # <<>>) =>
              pl[Len(pl)].count = s.total_count /\ pl[Len(pl)].size = s.total_size

\* C15 witness: a verbose upload of two files, one of them not empty, has
\* ended successfully.
C15_Witness ==
  \E p \in Procs :
    /\ st[p].kind = "upload_folder" /\ st[p].pc = "done"
    /\ plan.verbose
    /\ st[p].total_count = 2 /\ st[p].total_size > 0
    /\ Len(ProgressLines(st[p].out)) = 2

\* The uploaded counters of every upload_folder invocation are within the totals.
CountersWithinTotals ==
  \A p \in Procs :
    st[p].kind = "upload_folder" =>
      /\ st[p].uploaded_count <= st[p].total_count
      /\ st[p].uploaded_size <= st[p].total_size

\* No step of an invocation lowers one of its uploaded counters.
CountersNeverDecrease ==
  \A p \in Procs :
    (st[p].kind = "upload_folder" /\ st'[p].op = st[p].op) =>
      /\ st'[p].uploaded_count >= st[p].uploaded_count
      /\ st'[p].uploaded_size >= st[p].uploaded_size

\* C16: at every point of an upload_folder invocation uploaded_count is at
\* most total_count and uploaded_size is at most total_size, and neither
\* uploaded counter ever decreases.
C16_CountersBoundedMonotone == [] CountersWithinTotals /\ [][CountersNeverDecrease]_vars

\* C16 witness: an upload in progress with some but not all of its files
\* uploaded, one of them not empty.
C16_Witness ==
  \E p \in Procs :
    /\ st[p].kind = "upload_folder" /\ st[p].pc = "walk"
    /\ 0 < st[p].uploaded_count /\ st[p].uploaded_count < st[p].total_count
    /\ 0 < st[p].uploaded_size /\ st[p].uploaded_size < st[p].total_size

Errors == {"NameClash", "NameClashWithFile", "UnknownAPI"}

\* The error a remote call makes upload_folder fail with, "none" when the
\* invocation goes on after it: an unknown API error of any call, a clash of
\* the root mirror or of a subdirectory mirror, a lookup during target
\* resolution that finds no folder.
FailureOf(c) ==
  IF c.res = "UnknownAPI" THEN "UnknownAPI"
  ELSE IF c.call = "create_folder" /\ c.res = "NameClash" /\ c.phase \in {"root", "walk"}
    THEN "NameClash"
  ELSE IF c.call = "list" /\ c.res = "ok" /\ c.id = -1 THEN "NameClashWithFile"
  ELSE "none"

\* The ids the successful creations and uploads of invocation k returned.
CreatedIds(k) ==
  {calls[i].id : i \in {j \in 1..Len(calls) :
      calls[j].op = k /\ calls[j].call \in {"create_folder", "upload"} /\ calls[j].res = "ok"}}

HasSummary(out) == \E i \in 1..Len(out) : out[i].ev = "summary"

\* C17: upload_folder is fail-fast without rollback. A failing remote call is
\* the last call of its invocation and its error is the outcome of the
\* invocation; an invocation that ended with an error issued no call after
\* the failing one, printed no summary line, and left every folder and file
\* it had created in place; no delete is ever issued.
C17_FailFastNoRollback ==
  /\ \A i \in 1..Len(calls) : calls[i].call # "delete"
  /\ \A k \in 1..Len(ops) :
       ops[k].kind = "upload_folder" =>
         LET cs == OpCalls(k)
             s == st[ops[k].proc]
         IN /\ \A i \in 1..Len(cs) :
                 FailureOf(cs[i]) # "none" => (i = Len(cs) /\ ops[k].res = FailureOf(cs[i]))
            /\ ops[k].res \in Errors =>
                 /\ cs # <<>> /\ FailureOf(cs[Len(cs)]) = ops[k].res
                 /\ \A e \in ops[k].pre : e \in remote
                 /\ \A id \in CreatedIds(k) : \E e \in remote : e.id = id
                 /\ s.op = k => (s.pc = "failed" /\ s.err = ops[k].res /\ ~HasSummary(s.out))
            /\ (s.op = k /\ HasSummary(s.out)) => ops[k].res = "ok"

\* C17 witness: an upload_folder failed at a remote call after it had created
\* a folder and uploaded a file, which are still on the remote.
C17_Witness ==
  \E k \in 1..Len(ops) :
    /\ ops[k].kind = "upload_folder" /\ ops[k].res \in Errors
    /\ Cardinality(CreatedIds(k)) >= 2
    /\ UploadedPaths(k) # {}
    /\ \A id \in CreatedIds(k) : \E e \in remote : e.id = id

\* C18: every gateway operation is one remote call, never repeated, and maps
\* the remote error: create_folder raises NameClash exactly when the remote
\* reports NAME_ALREADY_EXIST and UnknownAPI for every other remote error;
\* upload_file and get_folder raise UnknownAPI for every remote error; a
\* lookup that finds no folder of the name returns None, not an error.
C18_GatewayErrorMapping ==
  /\ \A i \in 1..Len(calls) :
       LET c == calls[i] IN
       /\ c.call \in {"create_folder", "upload", "list"}
       /\ c.res = "ok" <=> c.err = "none"
       /\ c.call = "create_folder" =>
            /\ c.res = "NameClash" <=> c.err = "NAME_ALREADY_EXIST"
            /\ c.res = "UnknownAPI" <=> c.err \notin {"none", "NAME_ALREADY_EXIST"}
       /\ c.call \in {"upload", "list"} => (c.res = "UnknownAPI" <=> c.err # "none")
       /\ (c.call = "list" /\ c.err = "none") =>
            IF \E e \in remote : e.parent = c.parent /\ e.name = c.name /\ e.kind = "FOLDER"
              THEN \E e \in remote : e.id = c.id /\ e.parent = c.parent
                                       /\ e.name = c.name /\ e.kind = "FOLDER"
            ELSE c.id = -1
  /\ \A i, j \in 1..Len(calls) :
       (/\ i < j /\ calls[i].op = calls[j].op /\ calls[i].call = calls[j].call
        /\ calls[i].name = calls[j].name /\ calls[i].parent = calls[j].parent) => FALSE
  /\ \A k \in 1..Len(ops) :
       (DirectCreate(k) /\ ~ops[k].force) =>
         /\ Len(OpCalls(k)) = 1
         /\ ops[k].res = OpCalls(k)[1].res

\* C18 witness: one behaviour in which a creation got NameClash, a lookup
\* found no folder and returned None, and an upload got UnknownAPI.
C18_Witness ==
  /\ \E i \in 1..Len(calls) : calls[i].call = "create_folder" /\ calls[i].res = "NameClash"
  /\ \E i \in 1..Len(calls) : calls[i].call = "list" /\ calls[i].res = "ok" /\ calls[i].id = -1
  /\ \E i \in 1..Len(calls) : calls[i].call = "upload" /\ calls[i].res = "UnknownAPI"

\* C19: no delete is issued outside a forced replacement of a clashing
\* folder: no invocation without force and no target resolution issues a
\* delete call or removes an entry of the remote; the folders on a target
\* path are reused and kept.
C19_DeleteOnlyWhenForced ==
  /\ \A i \in 1..Len(calls) :
       calls[i].call = "delete" => (ops[calls[i].op].force /\ calls[i].phase # "resolve")
  /\ \A k \in 1..Len(ops) :
       ~ops[k].force => \A e \in ops[k].pre : e \in remote
  /\ \A i \in 1..Len(calls) :
       (calls[i].phase = "resolve" /\ calls[i].err = "NAME_ALREADY_EXIST") =>
         \E e \in ops[calls[i].op].pre :
           e.name = calls[i].name /\ e.parent = calls[i].parent /\ e \in remote

\* C19 witness: an upload_folder without force resolved its target through an
\* existing folder and then clashed with an existing folder at its root
\* mirror; both folders are still on the remote.
C19_Witness ==
  \E k \in 1..Len(ops) :
    /\ ops[k].kind = "upload_folder" /\ ~ops[k].force /\ ops[k].res = "NameClash"
    /\ \E i \in 1..Len(calls) :
         /\ calls[i].op = k /\ calls[i].call = "list" /\ calls[i].id # -1
         /\ \E e \in remote : e.id = calls[i].id /\ e.kind = "FOLDER"
    /\ \E i \in 1..Len(calls) :
         /\ calls[i].op = k /\ calls[i].phase = "root" /\ calls[i].res = "NameClash"
         /\ \E e \in remote \cap ops[k].pre :
              /\ e.kind = "FOLDER"
              /\ e.name = calls[i].name /\ e.parent = calls[i].parent

\* Every entry of a directory-id map stands for a completed creation: the
\* create-folder call for the mirror of that directory returned the id, and
\* the id is a folder of the remote; every completed mirror creation has its
\* entry; the directory being visited has its entry.
DirIdsSound ==
  \A p \in Procs :
    st[p].kind = "upload_folder" =>
      LET s == st[p]
          cs == MirrorCalls(s.op)
      IN /\ \A d \in DOMAIN s.dir_ids :
              /\ ReturnedBy(cs, "create_folder", d) = {s.dir_ids[d]}
              /\ \E e \in remote : e.id = s.dir_ids[d] /\ e.kind = "FOLDER"
         /\ \A i \in 1..Len(cs) :
              (cs[i].call = "create_folder" /\ cs[i].res = "ok") =>
                cs[i].path \in DOMAIN s.dir_ids
         /\ s.pc = "walk" => s.path \in DOMAIN s.dir_ids
         /\ (s.pc = "done" /\ s.op = Len(ops)) => DOMAIN s.dir_ids = tree.dirs \cup {<<>>}

\* No step of an invocation removes or changes an entry of its map, and a
\* step adds at most the entry of the creation that has just returned.
DirIdsGrow ==
  \A p \in Procs :
    (st[p].kind = "upload_folder" /\ st'[p].op = st[p].op) =>
      /\ \A d \in DOMAIN st[p].dir_ids :
           d \in DOMAIN st'[p].dir_ids /\ st'[p].dir_ids[d] = st[p].dir_ids[d]
      /\ \A d \in DOMAIN st'[p].dir_ids \ DOMAIN st[p].dir_ids :
           /\ Len(calls') = Len(calls) + 1
           /\ Last(calls').call = "create_folder" /\ Last(calls').res = "ok"
           /\ Last(calls').path = d /\ Last(calls').id = st'[p].dir_ids[d]

\* C20: the directory-id map of an invocation only grows: an entry is
\* inserted only after the create-folder call for the mirror of the directory
\* has returned successfully, with the id that call returned, a folder of the
\* remote; no entry is removed or overwritten; every directory the walk visits
\* has its entry when it is visited.
C20_DirIdsOnlyGrow == [] DirIdsSound /\ [][DirIdsGrow]_vars

\* C20 witness: the walk is visiting a subdirectory, the map holding the
\* entries of the source directory and of two subdirectories.
C20_Witness ==
  \E p \in Procs :
    /\ st[p].kind = "upload_folder" /\ st[p].pc = "walk"
    /\ st[p].path # <<>>
    /\ Cardinality(DOMAIN st[p].dir_ids) = 3

SummaryLines(out) == SelectSeq(out, LAMBDA e : e.ev = "summary")

\* C21: a successful upload_folder prints exactly one summary line, as its
\* last output: it names the base name of the source, has the part
\* " into `<target>`" exactly when a target was given, the part " as `<name>`"
\* exactly when name differs from the base name of the source, and the file
\* count with the humanized total size exactly when total_count > 0; an
\* invocation that has not ended successfully has printed none.
C21_SummaryLine ==
  \A p \in Procs :
    st[p].kind = "upload_folder" =>
      LET s == st[p]
          sm == SummaryLines(s.out)
      IN IF s.pc # "done" THEN sm = <<>>
         ELSE /\ Len(sm) = 1 /\ Last(s.out) = sm[1]
              /\ sm[1].source = plan.source
              /\ sm[1].into = (IF s.target = NoTarget THEN <<>> ELSE s.target)
              /\ sm[1].as = (IF plan.name = plan.source THEN <<>> ELSE plan.name)
              /\ sm[1].files <=> Cardinality(tree.files) > 0
              /\ sm[1].count = Cardinality(tree.files)
              /\ sm[1].size = human_size(Bytes(SumSizes(tree, tree.files)))

\* C21 witness: a successful upload with a target, a name other than the
\* base name of the source, and files.
C21_Witness ==
  \E p \in Procs :
    /\ st[p].kind = "upload_folder" /\ st[p].pc = "done"
    /\ st[p].target # NoTarget /\ plan.name # plan.source
    /\ st[p].total_count > 0 /\ st[p].total_size > 0
    /\ Last(st[p].out).as = plan.name /\ Last(st[p].out).into = st[p].target

\* The places of the banner in an output.
BannerAt(out) == {i \in 1..Len(out) : out[i].ev = "banner"}

\* C22: the pre-scan issues no remote call: every call of upload_folder after
\* target resolution is the creation of the root mirror or the call for one
\* directory or file of the tree, and the totals and the banner are there
\* before the first call of the walk. The banner is printed exactly when
\* total_count > 0, once, after the line of the root mirror and before the
\* line of every subdirectory and file.
C22_BannerAfterRootBeforeEntries ==
  \A p \in Procs :
    st[p].kind = "upload_folder" =>
      LET s == st[p]
          cs == MirrorCalls(s.op)
          b == BannerAt(s.out)
      IN /\ \A i \in 1..Len(cs) :
              IF i = 1 THEN cs[i].phase = "root"
              ELSE /\ cs[i].call = "create_folder" => cs[i].path \in tree.dirs
                   /\ cs[i].call = "upload" => cs[i].path \in tree.files
                   /\ cs[i].call \in {"create_folder", "upload"}
         /\ s.source_id = -1 => b = {}
         /\ s.source_id # -1 =>
              /\ s.total_count = Cardinality(tree.files)
              /\ Cardinality(b) = (IF Cardinality(tree.files) > 0 THEN 1 ELSE 0)
              /\ \A i \in b :
                   /\ s.out[i].count = Cardinality(tree.files)
                   /\ s.out[i].size = human_size(Bytes(SumSizes(tree, tree.files)))
                   /\ i = (IF plan.verbose THEN 2 ELSE 1)
                   /\ plan.verbose => (s.out[1].ev = "folder_created" /\ s.out[1].path = <<>>)
                   /\ \A j \in 1..Len(s.out) :
                        (s.out[j].ev \in {"folder_created", "file_uploaded", "progress", "summary"}
                           /\ ~(s.out[j].ev = "folder_created" /\ s.out[j].path = <<>>)) => i < j

\* C22 witness: a verbose upload printed the banner between the line of the
\* root mirror and the lines of a subdirectory and of a file.
C22_Witness ==
  \E p \in Procs :
    /\ st[p].kind = "upload_folder" /\ plan.verbose
    /\ BannerAt(st[p].out) = {2}
    /\ \E j \in 3..Len(st[p].out) :
         st[p].out[j].ev = "folder_created" /\ st[p].out[j].path # <<>>
    /\ \E j \in 3..Len(st[p].out) : st[p].out[j].ev = "file_uploaded"

\* The lines of an output for subdirectories and files.
EntryLines(out) ==
  SelectSeq(out, LAMBDA e : e.ev \in {"folder_created", "file_uploaded"} /\ e.path # <<>>)

\* The path of a local entry relative to the parent of the source directory,
\* its leading component replaced by name.
RenamedPath(path) == Join(<<plan.name>> \o path)

\* C23: the path printed for every created subdirectory and every uploaded
\* file is the path of the entry relative to the parent of the source
\* directory with only its leading component replaced by name, every later
\* component unchanged.
C23_OnlyLeadingComponentRenamed ==
  \A p \in Procs :
    st[p].kind = "upload_folder" =>
      LET ls == EntryLines(st[p].out) IN
      \A i \in 1..Len(ls) : ls[i].text = RenamedPath(ls[i].path)

\* The part of C23 the code has: the printed paths when name is the base name
\* of the source directory.
C23_PathsWhenNotRenamed ==
  \A p \in Procs :
    (st[p].kind = "upload_folder" /\ plan.name = plan.source) =>
      LET ls == EntryLines(st[p].out) IN
      \A i \in 1..Len(ls) : ls[i].text = RenamedPath(ls[i].path)

\* A verbose upload under the base name of the source printed the line of a
\* file in a subdirectory.
C23_NestedLineReached ==
  \E p \in Procs :
    /\ st[p].kind = "upload_folder" /\ plan.name = plan.source
    /\ \E i \in 1..Len(st[p].out) :
         st[p].out[i].ev = "file_uploaded" /\ Len(st[p].out[i].path) = 2

\* The names of a set in the order of list.sort().
Sorted(S) == SortNames(CHOOSE o \in Orders(S) : TRUE)

\* What a remote call is, without the ids.
CallShape(phase, call, name, path, res, found) ==
  [phase |-> phase, call |-> call, name |-> name, path |-> path, res |-> res, found |-> found]

ShapeOf(c) == CallShape(c.phase, c.call, c.name, c.path, c.res, c.id # -1)

\* The calls of target resolution on the remote r when no call fails for an
\* unrelated reason: pid is the folder reached so far, -1 for a folder the
\* resolution has just created.
RECURSIVE ResolveShapes(_, _, _)
ResolveShapes(r, pid, comps) ==
  IF comps = <<>> THEN [calls |-> <<>>, id |-> pid, res |-> "ok"]
  ELSE LET c == Head(comps)
           created == CallShape("resolve", "create_folder", c, <<>>, "ok", TRUE)
           clash == CallShape("resolve", "create_folder", c, <<>>, "NameClash", FALSE)
       IN IF pid = -1 \/ ~NameHeld(r, c, pid)
            THEN LET rest == ResolveShapes(r, -1, Tail(comps))
                 IN [rest EXCEPT !.calls = <<created>> \o @]
          ELSE LET next == PathIdFrom(r, pid, <<c>>) IN
               IF next = -1
                 THEN [calls |-> <<clash, CallShape("resolve", "list", c, <<>>, "ok", FALSE)>>,
                       id |-> -1, res |-> "NameClashWithFile"]
               ELSE LET rest == ResolveShapes(r, next, Tail(comps))
                    IN [rest EXCEPT !.calls =
                          <<clash, CallShape("resolve", "list", c, <<>>, "ok", TRUE)>> \o @]

\* The calls of the walk of the tree t from the directory d on, as os.walk
\* goes top-down: the subdirectories of d in sorted order, the files of d in
\* sorted order, then the same for each subdirectory in sorted order.
RECURSIVE WalkShapes(_, _)
RECURSIVE WalkShapesOf(_, _, _)
WalkShapesOf(t, d, subs) ==
  IF subs = <<>> THEN <<>>
  ELSE WalkShapes(t, Append(d, Head(subs))) \o WalkShapesOf(t, d, Tail(subs))

WalkShapes(t, d) ==
  LET subs == Sorted(SubdirNames(t, d))
      files == Sorted(FileNames(t, d))
  IN [i \in 1..Len(subs) |->
        CallShape("walk", "create_folder", subs[i], Append(d, subs[i]), "ok", TRUE)]
     \o [i \in 1..Len(files) |->
        CallShape("walk", "upload", files[i], Append(d, files[i]), "ok", TRUE)]
     \o WalkShapesOf(t, d, subs)

\* The calls and the outcome of an upload_folder of the tree under the name
\* to the target on the remote r, when no call fails for an unrelated
\* reason. Nothing here depends on the verbosity.
ExpectedRun(r, t, target, name) ==
  LET rs == ResolveShapes(r, RootId, IF target = NoTarget THEN <<>> ELSE Split(target)) IN
  IF rs.res # "ok" THEN [calls |-> rs.calls, res |-> rs.res]
  ELSE IF rs.id # -1 /\ NameHeld(r, name, rs.id)
    THEN [calls |-> rs.calls \o <<CallShape("root", "create_folder", name, <<>>, "NameClash", FALSE)>>,
          res |-> "NameClash"]
  ELSE [calls |-> rs.calls \o <<CallShape("root", "create_folder", name, <<>>, "ok", TRUE)>>
                    \o WalkShapes(t, <<>>),
        res |-> "ok"]

CountEv(out, ev) == Cardinality({i \in 1..Len(out) : out[i].ev = ev})

\* C25: verbosity gates output only. The banner and the summary are printed
\* whatever the verbosity is; the lines of folders and files and the progress
\* lines are printed only when verbose, one per completed call; the remote
\* calls and the outcome of an invocation are those determined by the tree,
\* the target, the name and the remote alone, the same for both verbosities.
C25_VerbosityGatesOutputOnly ==
  /\ \A p \in Procs :
       st[p].kind = "upload_folder" =>
         LET s == st[p]
             cs == MirrorCalls(s.op)
             made == IF plan.verbose THEN 1 ELSE 0
         IN /\ CountEv(s.out, "banner") =
                 (IF s.source_id # -1 /\ Cardinality(tree.files) > 0 THEN 1 ELSE 0)
            /\ CountEv(s.out, "summary") = (IF s.pc = "done" THEN 1 ELSE 0)
            /\ CountEv(s.out, "folder_created") =
                 made * Cardinality({i \in 1..Len(cs) : cs[i].call = "create_folder" /\ cs[i].res = "ok"})
            /\ CountEv(s.out, "file_uploaded") = made * Cardinality(UploadedPaths(s.op))
            /\ CountEv(s.out, "progress") = made * Cardinality(UploadedPaths(s.op))
  /\ \A k \in 1..Len(ops) :
       (ops[k].kind = "upload_folder" /\ ~ops[k].force) =>
         LET cs == OpCalls(k)
             ex == ExpectedRun(ops[k].pre, tree, ops[k].target, ops[k].name)
         IN /\ Len(cs) <= Len(ex.calls)
            /\ \A i \in 1..Len(cs) :
                 IF cs[i].err = "SOME_OTHER_ERROR"
                   THEN /\ i = Len(cs) /\ ops[k].res = "UnknownAPI"
                        /\ cs[i].call = ex.calls[i].call /\ cs[i].name = ex.calls[i].name
                        /\ cs[i].path = ex.calls[i].path
                 ELSE ShapeOf(cs[i]) = ex.calls[i]
            /\ (ops[k].res # "running" /\ NoFault(cs)) =>
                 (Len(cs) = Len(ex.calls) /\ ops[k].res = ex.res)

\* C25 witness: a quiet upload of a tree with a subdirectory and a file has
\* ended successfully, the banner and the summary its only output.
C25_Witness ==
  \E p \in Procs :
    /\ st[p].kind = "upload_folder" /\ st[p].pc = "done" /\ ~plan.verbose
    /\ tree.dirs # {} /\ tree.files # {}
    /\ Len(st[p].out) = 2
    /\ st[p].out[1].ev = "banner" /\ st[p].out[2].ev = "summary"

\* A text of human_size.
Text(int, dec, unit) == [int |-> int, dec |-> dec, unit |-> unit]

\* size > bound, for a bound of at most 10^9.
Above(size, bound) ==
  IF bound = Giga THEN size.g > 1 \/ (size.g = 1 /\ size.r > 0)
  ELSE size.g >= 1 \/ size.r > bound

\* The number of bytes of a size of at most 10^9.
Small(size) == size.g * Giga + size.r

\* C24: human_size picks its unit by exclusive lower bounds: a size above
\* 10^9 is given in GB with one decimal place, otherwise a size above 10^6 as
\* the size integer-divided by 10^6 in MB, otherwise a size above 1000 as the
\* size integer-divided by 1000 in KB, otherwise as the bytes in B; 1000 is
\* "1000 B" and 10^6 is "1000 KB"; 80 is "80 B", 320480 "320 KB", 450120000
\* "450 MB" and 15200000000 "15.2 GB".
C24_HumanSizeUnits ==
  hs.pc = "ret" =>
    LET z == hs.size
        t == hs.text
    IN /\ t.unit = (IF Above(z, Giga) THEN "GB" ELSE IF Above(z, Mega) THEN "MB"
                     ELSE IF Above(z, Kilo) THEN "KB" ELSE "B")
       /\ t.unit = "GB" =>
            LET d == 10 * t.int + t.dec - 10 * z.g IN
            /\ t.dec \in 0..9 /\ d \in 0..10
            /\ z.r - d * HundredMega <= HundredMega \div 2
            /\ d * HundredMega - z.r <= HundredMega \div 2
       /\ t.unit = "MB" =>
            t.dec = -1 /\ t.int * Mega <= Small(z) /\ Small(z) < (t.int + 1) * Mega
       /\ t.unit = "KB" =>
            t.dec = -1 /\ t.int * Kilo <= Small(z) /\ Small(z) < (t.int + 1) * Kilo
       /\ t.unit = "B" => t.dec = -1 /\ t.int = Small(z)
       /\ z = Bytes(Kilo) => t = Text(1000, -1, "B")
       /\ z = Bytes(Mega) => t = Text(1000, -1, "KB")
       /\ z = Bytes(80) => t = Text(80, -1, "B")
       /\ z = Bytes(320480) => t = Text(320, -1, "KB")
       /\ z = Bytes(450120000) => t = Text(450, -1, "MB")
       /\ z = [g |-> 15, r |-> 2 * HundredMega] => t = Text(15, 2, "GB")

\* C24 witness: human_size has returned "15.2 GB" for 15200000000.
C24_Witness ==
  /\ hs.pc = "ret" /\ hs.size = [g |-> 15, r |-> 2 * HundredMega]
  /\ hs.text = Text(15, 2, "GB")

CountIn(seq, x) == Cardinality({i \in 1..Len(seq) : seq[i] = x})

\* C26: the OAuth polling reacts to each response: 200 ends it with the body
\* as the token; 404 is followed by one sleep of a retry period and, while
\* the budget lasts, by the next poll; every other status ends it at once
\* with exit code 1 and no further poll. After k answers 404 and then a 200
\* there have been exactly k + 1 polls and k sleeps.
C26_PollingReactions ==
  oauth.pc # "start" =>
    LET a == oauth.answers
        n == Len(a)
    IN /\ oauth.polls = n
       /\ oauth.sleeps = CountIn(a, 404)
       /\ oauth.slept = oauth.sleeps * oauth.R
       /\ oauth.remaining = oauth.T - oauth.slept
       /\ \A i \in 1..(n - 1) : a[i] = 404
       /\ oauth.pc = "poll" => (\A i \in 1..n : a[i] = 404) /\ oauth.remaining # 0
       /\ oauth.pc = "returned" =>
            /\ a[n] = 200 /\ oauth.ret \in TokenTexts /\ oauth.code = -1
            /\ oauth.polls = CountIn(a, 404) + 1 /\ oauth.sleeps = oauth.polls - 1
       /\ (n > 0 /\ a[n] = 200) => oauth.pc = "returned"
       /\ (n > 0 /\ a[n] \notin {200, 404}) =>
            /\ oauth.pc = "exit" /\ oauth.code = 1 /\ oauth.ret = "none"
            /\ Last(oauth.out) = "server_error"
       /\ (n > 0 /\ a[n] = 404) =>
            IF oauth.remaining # 0 THEN oauth.pc = "poll"
            ELSE oauth.pc = "exit" /\ oauth.code = 1 /\ Last(oauth.out) = "timeout"

\* C26 witness: three answers 404 and then a 200: four polls, three sleeps,
\* the body returned.
C26_Witness ==
  /\ oauth.pc = "returned" /\ oauth.answers = <<404, 404, 404, 200>>
  /\ oauth.polls = 4 /\ oauth.sleeps = 3 /\ oauth.ret = "good"

Terminated == oauth.pc \in {"returned", "exit"}
OnlyNotYet == \A i \in 1..Len(oauth.answers) : oauth.answers[i] = 404

\* C27: for every timeout T > 0 and retry period R > 0 the OAuth polling
\* comes to an end: against a relay that keeps answering 404 it stops with
\* the timeout failure (exit code 1) once the budget is used up, after
\* exactly 60 polls and 60 sleeps when T = 300 and R = 5.
C27_PollingTerminates ==
  /\ [](oauth.pc = "exit" /\ OnlyNotYet =>
         /\ oauth.code = 1 /\ Last(oauth.out) = "timeout"
         /\ (oauth.T = DefaultTimeout /\ oauth.R = DefaultRetry) =>
              oauth.polls = 60 /\ oauth.sleeps = 60)
  /\ <>Terminated

\* C27, the part that holds: when the retry period divides the timeout the
\* polling ends, with T = 300 and R = 5 after 60 polls and 60 sleeps.
C27_TerminatesWhenPeriodDivides ==
  /\ [](oauth.pc = "exit" /\ OnlyNotYet =>
         /\ oauth.code = 1 /\ Last(oauth.out) = "timeout"
         /\ oauth.polls * oauth.R = oauth.T /\ oauth.sleeps = oauth.polls
         /\ (oauth.T = DefaultTimeout /\ oauth.R = DefaultRetry) =>
              oauth.polls = 60 /\ oauth.sleeps = 60)
  /\ (oauth.T % oauth.R = 0) => <>Terminated

\* C27: the tested configuration times out after 60 polls.
C27_SixtyPollsReached ==
  /\ oauth.pc = "exit" /\ OnlyNotYet /\ oauth.T = DefaultTimeout
  /\ oauth.polls = 60 /\ oauth.sleeps = 60

\* C27: the budget has passed zero and the polling goes on.
C27_BudgetBelowZero ==
  oauth.pc = "poll" /\ oauth.remaining < 0 /\ OnlyNotYet /\ oauth.polls = MaxPolls /\ oauth.more

\* The token the history leaves under a state before its event i.
HeldBefore(i, state) ==
  LET prev == {j \in 1..(i - 1) : relay.hist[j].state = state
                                    /\ relay.hist[j].ev \in {"set", "expire", "getdel", "lost"}}
  IN IF prev = {} THEN NoToken
     ELSE LET j == CHOOSE k \in prev : \A l \in prev : l <= k
          IN IF relay.hist[j].ev = "set" THEN relay.hist[j].token ELSE NoToken

Receivers(token) == {r \in Requests : relay.reqs[r].value = token}

\* C28: the relay hands out a stored token at most once: the first
\* /get-access-token request for a state after /oauth-callback stored a
\* token under it gets that token with 200 and removes it; every later
\* request for the state, and every request for a state without a stored,
\* unexpired token, gets 404; of concurrent requests at most one receives the
\* token; a request for another state never receives it.
C28_TokenHandedOutOnce ==
  /\ \A i \in 1..Len(relay.hist) :
        relay.hist[i].ev = "getdel" =>
          relay.hist[i].value = HeldBefore(i, relay.hist[i].state)
  /\ \A state \in RelayStates :
        relay.db[state] = HeldBefore(Len(relay.hist) + 1, state)
  /\ \A r \in Requests :
        LET q == relay.reqs[r] IN
        /\ q.pc = "done" /\ q.status \notin {400, 500} =>
             IF q.value # NoToken THEN q.status = 200 /\ q.body = q.value
             ELSE q.status = 404 /\ q.body = NoToken
        /\ q.body # NoToken => q.status = 200 /\ q.body = q.value
  /\ \A token \in 1..MaxStores : Cardinality(Receivers(token)) <= 1
  /\ \A i \in 1..Len(relay.hist) :
        relay.hist[i].ev = "set" =>
          \A r \in Receivers(relay.hist[i].token) : relay.reqs[r].state = relay.hist[i].state

\* C28 witness: a token was stored under s1; of two requests for s1 in
\* flight at once one was answered 200 with the token and the other 404; a
\* request for s2 was answered 404.
C28_Witness ==
  /\ relay.pc = "on" /\ Len(relay.hist) = 4
  /\ relay.hist[1] = [ev |-> "set", state |-> "s1", token |-> 1]
  /\ relay.hist[2].ev = "getdel" /\ relay.hist[3].ev = "getdel"
  /\ relay.hist[2].state = "s1" /\ relay.hist[3].state = "s1"
  /\ relay.hist[4].ev = "getdel" /\ relay.hist[4].state = "s2"
  /\ \A r \in Requests : relay.reqs[r].pc = "done"
  /\ relay.reqs[relay.hist[2].req].status = 200
  /\ relay.reqs[relay.hist[2].req].body = 1
  /\ relay.reqs[relay.hist[3].req].status = 404
  /\ relay.reqs[relay.hist[4].req].status = 404
  /\ relay.db["s1"] = NoToken

CallsOf(fn) == {i \in 1..Len(cli.calls) : cli.calls[i].fn = fn}
TokenFlows == CallsOf("get_token_from_credentials") \cup CallsOf("get_token_from_oauth")
CachedVerified ==
  /\ cli.verifies # <<>>
  /\ cli.verifies[1] = [token |-> cli.cached, ok |-> TRUE]

\* C29: login picks exactly one token source. A token together with
\* --prompt exits with code 1 and acquires nothing; a token alone is the
\* token used; --prompt alone runs the credential flow with the client id
\* and secret of the app; with neither, a cached token that verifies ends
\* the command with 'already logged in' and exit code 0 without OAuth, and
\* otherwise the OAuth flow is started exactly once. (An option or cached
\* token counts as given when its text is not empty.)
C29_LoginPicksOneSource ==
  (cli.pc \notin {"off", "start"} /\ cli.cmd = "login") =>
    /\ Cardinality(TokenFlows) <= 1
    /\ (Truthy(cli.token) /\ cli.prompt) =>
         /\ cli.pc = "exit" /\ cli.code = 1 /\ cli.out = <<(<<"mutually_exclusive">>)>>
         /\ cli.calls = <<>> /\ cli.verifies = <<>> /\ cli.access_token = NoneText
         /\ cli.stored = cli.cached
    /\ (Truthy(cli.token) /\ ~cli.prompt) =>
         /\ TokenFlows = {} /\ cli.access_token = cli.token
         /\ \A i \in 1..Len(cli.verifies) : cli.verifies[i].token = cli.token
         /\ cli.stored \in {cli.cached, cli.token}
    /\ (~Truthy(cli.token) /\ cli.prompt) =>
         /\ cli.calls[1] = [fn |-> "get_token_from_credentials",
                             args |-> <<cli.client_id, cli.client_secret>>]
         /\ CallsOf("get_token_from_oauth") = {}
         /\ \A i \in 1..Len(cli.verifies) : cli.verifies[i].token = cli.access_token
    /\ (~Truthy(cli.token) /\ ~cli.prompt) =>
         /\ CallsOf("get_token_from_credentials") = {}
         /\ IF Truthy(cli.cached) /\ cli.pc = "verify_cached" THEN cli.calls = <<>>
            ELSE IF CachedVerified
              THEN /\ cli.pc = "exit" /\ cli.code = 0
                   /\ cli.out = <<(<<"already_logged_in">>)>>
                   /\ cli.calls = <<>> /\ cli.stored = cli.cached
            ELSE /\ Cardinality(CallsOf("get_token_from_oauth")) = 1
                 /\ cli.calls[1] = [fn |-> "get_token_from_oauth", args |-> <<>>]

\* C29 witness: no option, a cached token that fails verification: the
\* OAuth flow ran once and the login succeeded with its token.
C29_Witness ==
  /\ cli.pc = "exit" /\ cli.cmd = "login" /\ cli.code = 0
  /\ ~Truthy(cli.token) /\ ~cli.prompt /\ cli.cached = "good"
  /\ cli.verifies = <<[token |-> "good", ok |-> FALSE], [token |-> "good", ok |-> TRUE]>>
  /\ cli.calls = <<[fn |-> "get_token_from_oauth", args |-> <<>>]>>

UploadCalls == CallsOf("upload_folder")
VerifiedTokens == {cli.verifies[i].token : i \in {j \in 1..Len(cli.verifies) : cli.verifies[j].ok}}
TokenVerifies == Truthy(cli.token) /\ [token |-> cli.token, ok |-> TRUE] = cli.verifies[1]

\* C30: upload starts the core upload only with a verified token: the
\* token of --token if it verifies, otherwise the cached token if that
\* verifies; when neither verifies it prints the not-logged-in message,
\* exits with code 1 and never calls upload_folder.
C30_UploadOnlyWithVerifiedToken ==
  (cli.pc \notin {"off", "start"} /\ cli.cmd = "upload") =>
    /\ \A i \in UploadCalls : cli.calls[i].args[5] \in VerifiedTokens
    /\ cli.pc = "core" => cli.access_token \in VerifiedTokens /\ cli.calls = <<>>
    /\ \A i \in UploadCalls : cli.calls[i].args[5] = cli.access_token
    /\ cli.pc \in {"core", "exit"} =>
         IF cli.verifies # <<>> /\ TokenVerifies
           THEN cli.access_token = cli.token /\ Len(cli.verifies) = 1
         ELSE IF cli.verifies # <<>> /\ Last(cli.verifies) = [token |-> cli.cached, ok |-> TRUE]
           THEN cli.access_token = cli.cached
         ELSE /\ cli.pc = "exit" /\ cli.code = 1 /\ cli.out = <<(<<"not_logged_in">>)>>
              /\ cli.calls = <<>> /\ cli.access_token = NoneText
    /\ Len(cli.verifies) <= 2
    /\ cli.pc = "exit" /\ cli.access_token # NoneText => Cardinality(UploadCalls) = 1

\* C30 witness: the token of the option failed verification, the cached one
\* verified and upload_folder was called with it.
C30_Witness ==
  /\ cli.pc = "exit" /\ cli.cmd = "upload" /\ cli.token = "bad" /\ cli.cached = "good"
  /\ cli.verifies = <<[token |-> "bad", ok |-> FALSE], [token |-> "good", ok |-> TRUE]>>
  /\ Cardinality(UploadCalls) = 1 /\ cli.calls[1].args[5] = "good"

UploadEnded == cli.cmd = "upload" /\ cli.pc = "exit" /\ UploadCalls # {}

C31_EveryCallEndsInTypeError ==
  UploadEnded =>
    cli.raised = "TypeError" /\ cli.code = 1 /\ cli.out = <<(<<"unknown_error", "TypeError">>)>>

\* C31: an upload whose body would complete without error has ended.
C31_CompletingUploadReached == UploadEnded /\ cli.body = "ok"

Slashes == {<<>>, <<Slash>>, <<Slash, Slash>>}
StrippedOf(raw, text) ==
  /\ \E a \in Slashes, b \in Slashes : raw = a \o text \o b
  /\ text # <<>> => text[1] # Slash /\ text[Len(text)] # Slash
CallArguments ==
  /\ Cardinality(UploadCalls) = 1
  /\ LET args == cli.calls[1].args IN
     /\ Len(args) = 6
     /\ args[1] = SourceStr
     /\ StrippedOf(cli.target, args[2])
     /\ args[3] = IF cli.name # <<>> THEN cli.name ELSE plan.source
     /\ args[4] = cli.force
     /\ args[5] = cli.access_token
     /\ args[6] = cli.verbose

\* C32: upload calls upload_folder exactly once with (source, target,
\* name, force, access token, verbose), the target without its leading and
\* trailing slashes, the name as given or the base name of the source, the
\* force flag as given; upload_folder accepts these six inputs.
C32_CoreCalledWithSixInputs ==
  UploadEnded => CallArguments /\ cli.raised # "TypeError"

\* C32, what holds: the one call and its six arguments.
C32_CallArguments == UploadEnded => CallArguments

\* C32: a call with a stripped target, the default name and the force flag.
C32_StrippedCallReached ==
  /\ UploadEnded /\ cli.target = <<Slash, 1, Slash>> /\ cli.name = <<>> /\ cli.force
  /\ cli.calls[1].args = <<SourceStr, <<1>>, <<1>>, TRUE, cli.access_token, cli.verbose>>

FlowRan ==
  \/ cli.cmd = "credentials" /\ cli.pc # "start"
  \/ cli.cmd = "login" /\ CallsOf("get_token_from_credentials") # {} /\ cli.pc # "credentials"
FlowEnded(answer) ==
  cli.cmd = "credentials" =>
    IF answer.status = 200
      THEN cli.pc = "returned" /\ cli.access_token = answer.body /\ cli.out = <<>>
    ELSE /\ cli.pc = "exit" /\ cli.code = 1 /\ cli.access_token = NoneText
         /\ cli.out = <<(<<IF answer.fn = "create_access_token"
                              THEN "create_error" ELSE "server_error">>)>>

\* C33: the credential flow uses exactly one exchange path per call.
\* Without the client id or the client secret it prompts for username and
\* password and sends one request to /create-access-token of the relay (200
\* yields the token, every other status exit code 1) and never calls the
\* credential grant of the service; with both it calls the credential grant
\* once, prompting only when username or password is missing, never
\* contacts the relay, and an API error ends in exit code 1.
C33_OneExchangePath ==
  FlowRan =>
    LET relays == CallsOf("relay_create_access_token")
        grants == CallsOf("create_access_token")
        prompts == CallsOf("prompt")
    IN /\ Len(cli.answers) = 1
       /\ FlowEnded(cli.answers[1])
       /\ IF cli.client_id \in {NoneText, ""} \/ cli.client_secret \in {NoneText, ""}
            THEN /\ Cardinality(relays) = 1 /\ grants = {}
                 /\ Cardinality(prompts) = 2 /\ \A i \in prompts, j \in relays : i < j
                 /\ cli.answers[1].fn = "relay_create_access_token"
          ELSE /\ Cardinality(grants) = 1 /\ relays = {}
               /\ Cardinality(prompts) =
                    IF cli.username \in {NoneText, ""} \/ cli.password \in {NoneText, ""}
                      THEN 2 ELSE 0
               /\ \A i \in prompts, j \in grants : i < j
               /\ cli.answers[1].fn = "create_access_token"
               /\ \A j \in grants :
                    /\ cli.calls[j].args[1] = cli.client_id
                    /\ cli.calls[j].args[2] = cli.client_secret
                    /\ prompts = {} =>
                         cli.calls[j].args[3] = cli.username /\ cli.calls[j].args[4] = cli.password

\* C33 witness: client id and secret are there, the password is missing: two
\* prompts, one credential grant, no request to the relay, the token returned.
C33_Witness ==
  /\ cli.cmd = "credentials" /\ cli.pc = "returned" /\ cli.access_token = "good"
  /\ cli.client_id = "C_ID" /\ cli.client_secret = "C_SCRT"
  /\ cli.username = "user" /\ cli.password = NoneText
  /\ Len(cli.calls) = 3 /\ cli.calls[3].fn = "create_access_token"

LoginEnded == cli.cmd = "login" /\ cli.pc = "exit"

\* C39: login persists an access token only after that token was verified
\* in the same run: on every path that ends with 'User couldn't be
\* authorized', with the mutual-exclusion error or with 'already logged in'
\* the stored token is left unchanged, and a successful login stores exactly
\* the token that was verified and exits with code 0.
C39_StoredOnlyWhenVerified ==
  cli.cmd = "login" =>
    /\ cli.stored # cli.cached =>
         /\ LoginEnded /\ cli.code = 0 /\ Last(cli.out) = <<"logged_in">>
         /\ cli.stored \in VerifiedTokens
    /\ (LoginEnded /\ Last(cli.out) \in {<<"not_authorized">>, <<"mutually_exclusive">>,
                                          <<"already_logged_in">>, <<"oauth_failed">>,
                                          <<"server_error">>, <<"create_error">>}) =>
         cli.stored = cli.cached
    /\ (LoginEnded /\ Last(cli.out) = <<"not_authorized">>) =>
         /\ cli.code = 1
         /\ \/ cli.access_token = NoneText
            \/ Last(cli.verifies) = [token |-> cli.access_token, ok |-> FALSE]
    /\ (LoginEnded /\ Last(cli.out) = <<"logged_in">>) =>
         /\ cli.code = 0
         /\ cli.stored = cli.access_token
         /\ Last(cli.verifies) = [token |-> cli.access_token, ok |-> TRUE]
    /\ ~LoginEnded => cli.stored = cli.cached

\* C39 witness: a login with --token over a cached token that differs: the
\* given token was verified and stored.
C39_Witness ==
  /\ LoginEnded /\ cli.code = 0 /\ cli.token = "good" /\ cli.cached = "bad"
  /\ cli.stored = "good" /\ cli.verifies = <<[token |-> "good", ok |-> TRUE]>>

\* C39: a login that ended with 'User couldn't be authorized' after a failed
\* verification left the stored token as it was.
C39_FailedLoginReached ==
  /\ LoginEnded /\ cli.code = 1 /\ cli.token = "good" /\ cli.cached = "bad"
  /\ cli.stored = "bad" /\ cli.verifies = <<[token |-> "good", ok |-> FALSE]>>

WalkCalls(k) == SelectSeq(calls, LAMBDA c : c.op = k /\ c.phase = "walk")

\* The directories a and b lie in the subtrees of two siblings, that of a in
\* the one with the smaller name.
SiblingBefore(a, b) ==
  \E m \in 0..(Len(a) - 1) :
    /\ m < Len(b)
    /\ SubSeq(a, 1, m) = SubSeq(b, 1, m)
    /\ LexLess(a[m + 1], b[m + 1])

\* C34: the walk is pre-order and directory-at-a-time: in a visited
\* directory all subdirectories are created first, then all files are
\* uploaded, and only then is the subdirectory with the smallest name visited;
\* the whole subtree of a subdirectory is finished before its next sibling is
\* visited.
C34_WalkPreOrder ==
  \A k \in 1..Len(ops) :
    LET cs == WalkCalls(k) IN
    /\ \A i, j \in 1..Len(cs) :
         LET a == Front(cs[i].path)
             b == Front(cs[j].path)
         IN /\ (a = b /\ cs[i].call = "create_folder" /\ cs[j].call = "upload") => i < j
            /\ (a = b /\ cs[i].call = cs[j].call /\ LexLess(cs[i].name, cs[j].name)) => i < j
            /\ ProperPrefix(a, b) => i < j
            /\ SiblingBefore(a, b) => i < j
    /\ UploadOk(k) => Len(cs) = Cardinality(tree.dirs \cup tree.files)

\* C34 witness: the directories a and ab, a/a below a, a file in a/a and a
\* file in ab: the file of a/a is uploaded before the file of ab.
C34_Witness ==
  /\ Len(ops) = 1 /\ UploadOk(1)
  /\ tree.dirs = {<<(<<1>>)>>, <<(<<1, 2>>)>>, <<(<<1>>), (<<1>>)>>}
  /\ tree.files = {<<(<<1>>), (<<1>>), (<<1>>)>>, <<(<<1, 2>>), (<<1>>)>>}
  /\ Shape(WalkCalls(1)) =
       << <<"create_folder", <<(<<1>>)>> >>,
          <<"create_folder", <<(<<1, 2>>)>> >>,
          <<"create_folder", <<(<<1>>), (<<1>>)>> >>,
          <<"upload", <<(<<1>>), (<<1>>), (<<1>>)>> >>,
          <<"upload", <<(<<1, 2>>), (<<1>>)>> >> >>

PhaseRank(phase) == CASE phase = "resolve" -> 1 [] phase = "root" -> 2 [] OTHER -> 3
RootCalls(k) == SelectSeq(calls, LAMBDA c : c.op = k /\ c.phase = "root")
RootCreated(k) == \E i \in 1..Len(RootCalls(k)) : RootCalls(k)[i].res = "ok"
TargetComps(k) == IF ops[k].target = NoTarget THEN <<>> ELSE Split(ops[k].target)

\* C35: the phases of upload_folder are strictly ordered: target resolution
\* finishes before the creation of the root mirror is attempted and runs
\* exactly once per invocation; the root mirror is created before any
\* subdirectory is created or file uploaded; when resolution or the creation
\* of the root mirror fails, no file is uploaded and neither banner nor
\* summary is printed.
C35_PhasesInOrder ==
  \A k \in 1..Len(ops) :
    ops[k].kind = "upload_folder" =>
      LET cs == OpCalls(k)
          rs == ResolveCalls(k)
          s == st[ops[k].proc]
      IN /\ \A i, j \in 1..Len(cs) : i < j => PhaseRank(cs[i].phase) <= PhaseRank(cs[j].phase)
         /\ Len(RootCalls(k)) <= 1
         /\ CountOf(rs, "create_folder") <= Len(TargetComps(k))
         /\ CountOf(rs, "list") <= CountOf(rs, "create_folder")
         /\ RootCalls(k) # <<>> =>
              /\ CountOf(rs, "create_folder") = Len(TargetComps(k))
              /\ rs # <<>> => rs[Len(rs)].res = "ok" /\ rs[Len(rs)].id # -1
              /\ RootCalls(k)[1].parent = ResolvedId(k)
         /\ WalkCalls(k) # <<>> => RootCreated(k)
         /\ ~RootCreated(k) =>
              /\ UploadedPaths(k) = {}
              /\ WalkCalls(k) = <<>>
              /\ s.op = k => s.out = <<>>
         /\ (ops[k].res \in Errors /\ ~RootCreated(k) /\ cs # <<>>) =>
              cs[Len(cs)].phase \in {"resolve", "root"} /\ FailureOf(cs[Len(cs)]) = ops[k].res

\* C35 witness: an upload_folder resolved its target, then created the root
\* mirror, then uploaded a file and printed banner and summary.
C35_Witness ==
  \E k \in 1..Len(ops) :
    /\ UploadOk(k) /\ ops[k].target # NoTarget /\ st[ops[k].proc].op = k
    /\ ResolveCalls(k) # <<>> /\ UploadedPaths(k) # {}
    /\ HasSummary(st[ops[k].proc].out) /\ BannerAt(st[ops[k].proc].out) # {}

\* C35: an upload_folder of a tree with a file failed at the creation of the
\* root mirror after it had resolved its target.
C35_RootFailureReached ==
  \E k \in 1..Len(ops) :
    /\ ops[k].kind = "upload_folder" /\ ops[k].res = "NameClash" /\ tree.files # {}
    /\ ResolveCalls(k) # <<>> /\ RootCalls(k) # <<>> /\ st[ops[k].proc].out = <<>>

EntryEvents == {"folder_created", "file_uploaded"}
CallOfEvent(ev) == IF ev = "folder_created" THEN "create_folder" ELSE "upload"
EntryShape(out) ==
  LET es == SelectSeq(out, LAMBDA e : e.ev \in EntryEvents)
  IN [i \in 1..Len(es) |-> <<CallOfEvent(es[i].ev), es[i].path>>]
OkMirrorShape(k) == Shape(SelectSeq(MirrorCalls(k), LAMBDA c : c.res = "ok"))

\* Every line of a folder or file stands for a call that returned
\* successfully, in the order of the calls; a progress line follows the line
\* of its file.
EventsMatchCalls ==
  \A p \in Procs :
    st[p].kind = "upload_folder" =>
      LET out == st[p].out IN
      /\ EntryShape(out) = IF plan.verbose THEN OkMirrorShape(st[p].op) ELSE <<>>
      /\ \A i \in 1..Len(out) :
           /\ out[i].ev = "file_uploaded" =>
                i < Len(out) /\ out[i + 1].ev = "progress" /\ out[i + 1].path = out[i].path
           /\ out[i].ev = "progress" =>
                i > 1 /\ out[i - 1].ev = "file_uploaded" /\ out[i - 1].path = out[i].path

\* The lines a step adds to an output are those of the one call of the step,
\* which returned successfully.
EventsFollowTheirCall ==
  \A p \in Procs :
    st'[p].out # st[p].out =>
      \/ st'[p].out = <<>> /\ st'[p].op # st[p].op
      \/ /\ IsPrefix(st[p].out, st'[p].out)
         /\ st'[p].op = st[p].op
         /\ Len(calls') = Len(calls) + 1
         /\ LET c == calls'[Len(calls')]
                new == SubSeq(st'[p].out, Len(st[p].out) + 1, Len(st'[p].out))
            IN /\ c.op = st[p].op /\ c.res = "ok"
               /\ \A i \in 1..Len(new) :
                    /\ new[i].ev \in EntryEvents =>
                         new[i].path = c.path /\ CallOfEvent(new[i].ev) = c.call
                    /\ new[i].ev = "progress" => new[i].path = c.path /\ c.call = "upload"
                    /\ new[i].ev = "banner" => c.phase = "root"
               /\ Cardinality({i \in 1..Len(new) : new[i].ev \in EntryEvents}) <= 1

\* C36: no event is speculative: a 'folder created' event is emitted only
\* after the create-folder call for that directory returned successfully, a
\* 'file uploaded' event and its progress event only after the upload call for
\* that file returned successfully, and each event follows its remote call
\* before the next remote call is issued.
C36_NoSpeculativeEvent == [] EventsMatchCalls /\ [][EventsFollowTheirCall]_vars

\* C36 witness: a verbose upload printed the lines of the root mirror, of a
\* subdirectory and of a file with its progress, and a later call failed
\* without a line.
C36_Witness ==
  \E p \in Procs :
    /\ st[p].kind = "upload_folder" /\ plan.verbose /\ st[p].pc = "failed"
    /\ \E i, j \in 1..Len(st[p].out) :
         /\ st[p].out[i].ev = "folder_created" /\ st[p].out[i].path # <<>>
         /\ st[p].out[j].ev = "file_uploaded"
    /\ Len(MirrorCalls(st[p].op)) = Len(EntryShape(st[p].out)) + 1

\* The invocations k and l are upload_folder without force, with the same
\* name, whose creation of the root mirror was attempted under the same
\* parent and answered by the service.
SameRootRace(k, l) ==
  /\ k # l
  /\ ops[k].kind = "upload_folder" /\ ops[l].kind = "upload_folder"
  /\ ~ops[k].force /\ ~ops[l].force
  /\ ops[k].name = ops[l].name
  /\ RootCalls(k) # <<>> /\ RootCalls(l) # <<>>
  /\ RootCalls(k)[1].parent = RootCalls(l)[1].parent
  /\ NoFault(RootCalls(k)) /\ NoFault(RootCalls(l))

\* C37: of two upload_folder invocations without force, with the same name
\* and the same resolved target, at most one creates the root mirror; the
\* other one ends with NameClash, having created no subfolder and uploaded no
\* file, and deletes nothing of what the first one created.
C37_OneRootMirror ==
  \A k, l \in 1..Len(ops) :
    SameRootRace(k, l) =>
      /\ ~(RootCreated(k) /\ RootCreated(l))
      /\ Len(RootCalls(l)) = 1
      /\ ~RootCreated(l) =>
           /\ ops[l].res = "NameClash"
           /\ WalkCalls(l) = <<>>
           /\ CountOf(OpCalls(l), "delete") = 0
           /\ CreatedIds(k) \subseteq {e.id : e \in remote}

\* C37 witness: the two invocations overlap: one created the root mirror, the
\* other one's creation was refused afterwards, and the first one went on
\* with its walk after that.
C37_Witness ==
  \E k, l \in 1..Len(ops) :
    /\ SameRootRace(k, l)
    /\ ops[l].res = "NameClash"
    /\ \E i, j, m \in 1..Len(calls) :
         /\ i < j /\ j < m
         /\ calls[i].op = k /\ calls[i].phase = "root" /\ calls[i].res = "ok"
         /\ calls[j].op = l /\ calls[j].phase = "root" /\ calls[j].res = "NameClash"
         /\ calls[m].op = k /\ calls[m].phase = "walk" /\ calls[m].res = "ok"

\* Invocation k resolves a target path: get_target_id itself, or an
\* upload_folder with a target.
Resolver(k) ==
  /\ ops[k].kind \in {"get_target_id", "upload_folder"}
  /\ ~ops[k].force
  /\ ops[k].target # NoTarget

ResolveEnded(k) ==
  IF ops[k].kind = "get_target_id" THEN ops[k].res # "running"
  ELSE ops[k].res # "running" \/ RootCalls(k) # <<>>

ResolveSucceeded(k) ==
  IF ops[k].kind = "get_target_id" THEN ops[k].res = "ok"
  ELSE RootCalls(k) # <<>>

\* The id target resolution handed to its caller.
ResolveResult(k) ==
  IF ops[k].kind = "get_target_id" THEN ops[k].ret ELSE RootCalls(k)[1].parent

\* The ids of the remote folders that lie at a path below the root folder.
RECURSIVE IdsAt(_, _)
IdsAt(r, comps) ==
  IF comps = <<>> THEN {RootId}
  ELSE {e.id : e \in {x \in r : /\ x.parent \in IdsAt(r, Front(comps))
                                /\ x.name = Last(comps)
                                /\ x.kind = "FOLDER"}}

EntriesAt(r, comps) ==
  {x \in r : x.parent \in IdsAt(r, Front(comps)) /\ x.name = Last(comps)}

\* Two resolutions of the same path, answered by the service, with no file
\* in the way of the path when either began.
SameTargetRace(k, l) ==
  /\ k # l
  /\ Resolver(k) /\ Resolver(l)
  /\ ops[k].target = ops[l].target
  /\ NoFault(ResolveCalls(k)) /\ NoFault(ResolveCalls(l))
  /\ \A n \in 1..Len(TargetComps(k)) :
       \A x \in EntriesAt(ops[k].pre, SubSeq(TargetComps(k), 1, n))
                 \cup EntriesAt(ops[l].pre, SubSeq(TargetComps(k), 1, n)) :
         x.kind = "FOLDER"

\* C38: target resolution is safe under races: two resolutions of the same
\* path whose create-folder and list-children calls interleave in any order
\* both succeed, both return the same folder id, and each component of the
\* path ends up as exactly one remote folder.
C38_ResolutionRaceSafe ==
  \A k, l \in 1..Len(ops) :
    (SameTargetRace(k, l) /\ ResolveEnded(k) /\ ResolveEnded(l)) =>
      /\ ResolveSucceeded(k) /\ ResolveSucceeded(l)
      /\ ResolveResult(k) = ResolveResult(l)
      /\ ResolveResult(k) \in IdsAt(remote, TargetComps(k))
      /\ \A n \in 1..Len(TargetComps(k)) :
           LET es == EntriesAt(remote, SubSeq(TargetComps(k), 1, n)) IN
           /\ Cardinality(es) = 1
           /\ \A x \in es : x.kind = "FOLDER"

\* C38 witness: the calls of two resolutions of a path of two components
\* alternate; one of them was refused the creation of a component the other
\* had just created and looked the folder up.
C38_Witness ==
  \E k, l \in 1..Len(ops) :
    /\ SameTargetRace(k, l) /\ ResolveEnded(k) /\ ResolveEnded(l)
    /\ Len(TargetComps(k)) = 2
    /\ \E i, j, m, n \in 1..Len(calls) :
         /\ i < j /\ j < m /\ m < n
         /\ calls[i].op = k /\ calls[i].phase = "resolve"
         /\ calls[i].call = "create_folder" /\ calls[i].res = "ok"
         /\ calls[j].op = l /\ calls[j].phase = "resolve"
         /\ calls[j].call = "create_folder" /\ calls[j].res = "NameClash"
         /\ calls[j].name = calls[i].name /\ calls[j].parent = calls[i].parent
         /\ calls[m].op = k /\ calls[m].phase = "resolve"
         /\ calls[n].op = l /\ calls[n].phase = "resolve"
         /\ calls[n].call = "list" /\ calls[n].res = "ok"

====
